---- MODULE Spec2Model ----
(***************************************************************************)
(* A model of the email content extraction and relevance-filtering        *)
(* pipeline of the inbox-digest extension.                                 *)
(*                                                                         *)
(* The module holds one state machine per component; every component has  *)
(* its own specification over the shared variable list:                    *)
(*   SpecSample    the three snippet samplers                              *)
(*   SpecBoiler    removeBoilerplateText                                   *)
(*   SpecLinks     filterRelevantLinks                                     *)
(*   SpecFilter    filterRelevantEmails / filterEmailsWithDecisions        *)
(*   SpecOffscreen offscreenManager and generateDigest runs                *)
(*   SpecClean     cleanEmailContent                                       *)
(*   SpecDigest    one generateDigest run over the mailbox                 *)
(*   SpecSummary   summarizeAggregatedContent                              *)
(*   SpecBatch     the cleaning and snippet building of a batch of emails  *)
(*   SpecCascade   the extraction strategies of the offscreen document     *)
(*   SpecEncoding  the replacement table of fixCharacterEncoding           *)
(*   SpecAnchors   the link list of the offscreen document                 *)
(*   SpecSelection the candidate selection of the offscreen document       *)
(*   SpecReadability  Readability's search for the article container       *)
(***************************************************************************)
EXTENDS Integers, Sequences, FiniteSets, TLC

VARIABLES
    \* ---- snippet sampling
    sPc,            \* "start" | "done"
    sSite,          \* the call site that samples
    words,          \* the word list handed to the sampler
    snippet,        \* the sampled snippet, as a token sequence
    \* ---- removeBoilerplateText
    bPc,            \* "start" | "once" | "twice"
    text,           \* the input text, as a sequence of words
    cleanedOnce,    \* removeBoilerplateText(text)
    cleanedTwice,   \* removeBoilerplateText(removeBoilerplateText(text))
    \* ---- filterRelevantLinks
    lPc,            \* "start" | "relevance" | "done"
    links,          \* the input link list
    relevantLinks,  \* the links that passed the relevance pass
    deduplicatedLinks,  \* the returned list
    \* ---- filterRelevantEmails / filterEmailsWithDecisions
    fPc,            \* where the filter call stands
    fSite,          \* which of the two filter functions runs
    emails,         \* the input emails, by id
    apiKey,         \* whether an API key is configured
    pendingCleans,  \* the emails whose cleanEmailContent call is pending
    attempt,        \* callOpenAI's loop counter i
    lastError,      \* callOpenAI's lastError
    requests,       \* the requests sent to the oracle so far
    callLog,        \* the requests' outcomes and the delays waited, in order
    oracle,         \* "pending" | "returned" | "failed"
    content,        \* the message content the oracle answered with
    filteredEmails, \* what the filter call resolved to
    \* ---- offscreenManager and generateDigest runs
    runPc,          \* where each generateDigest run stands
    exit,           \* the exit path each run took
    result,         \* what each run's promise settled to
    closeCalled,    \* whether the run has invoked offscreenManager.close()
    isCreating,     \* the module-level flag of the handler
    setupPromise,   \* the module-level promise: its creator, or NoPromise
    promiseState,   \* the state of the setup promise each run created
    awaiting,       \* the setup promise each run's setup() returned
    offscreenDocument,  \* the browser's offscreen document
    replies,        \* the chrome.offscreen calls whose reply is on its way
    arrivedDuring,  \* the creations in flight when the run called setup()
    setupSaw,       \* the state of the document when the run's setup() resolved
    sendResponses,  \* the sendResponse calls of the listener, per message
    otherMessages,  \* the messages of other types the listener received
    \* ---- cleanEmailContent
    cPc,            \* "start" | "sent" | "done"
    htmlString,     \* the raw HTML handed to cleanEmailContent
    exchange,       \* how the message exchange with the offscreen document ended
    cleaned,        \* what the caller of cleanEmailContent received
    \* ---- one generateDigest run, from the mailbox to the digest
    dPc,            \* where the run stands
    listed,         \* the message-list request: "pending" | "ok" | "empty" | "failed"
    details,        \* the message-detail requests: "pending" | "ok" | "failed"
    oracleCalled,   \* whether filterRelevantEmails was invoked
    summarizerCalled,   \* whether generateSummaryFromEmails was invoked
    outcome,        \* what generateDigest resolved to
    \* ---- summarizeAggregatedContent
    mPc,            \* "start" | "attempt" | "delay" | "done"
    aggregated,     \* whether there is content to summarize
    keyConfigured,  \* whether config.js holds an API key
    retryCount,     \* the retryCount argument of the current call
    attempts,       \* the attempts made so far
    summaryErrors,  \* the errors of the failed attempts, in order
    delays,         \* the delays waited so far, in ms
    summary,        \* what summarizeAggregatedContent resolved to
    \* ---- a batch of emails through the cleaning and the snippet building
    batchPc,        \* "start" | "cleaning" | "done" | "threw"
    batchSite,      \* which of the two filter functions builds the snippets
    batch,          \* the emails of the batch
    settled,        \* the cleanEmailContent calls that settled, in that order
    cleanedContents,    \* what Promise.all resolved to
    emailSnippets,  \* the snippets, in batch order
    \* ---- the extraction cascade of the offscreen cleanEmailContent
    cascadePc,      \* "readability" | "candidates" | "fallback" | "done"
    doc,            \* what each strategy can extract from the parsed document
    readabilityWorked,  \* the flag of the same name
    cleanedText,    \* the text extracted so far: the strategy it is from, its length
    strategiesRun,  \* the strategies that ran, each with the text it left
    \* ---- fixCharacterEncoding, character by character
    ePc,            \* "start" | "done"
    rawText,        \* the text handed to fixCharacterEncoding, as characters
    fixedText,      \* what fixCharacterEncoding returned
    \* ---- the link list of the offscreen cleanEmailContent
    aPc,            \* "start" | "done"
    anchors,        \* the hrefs of the document's anchors, in document order
    docLinks,       \* the links of the returned record
    \* ---- the candidate selection of the offscreen cleanEmailContent
    selPc,          \* "start" | "done"
    contentCandidates,  \* the candidates, in the order the sort by score left
    selectedContent,    \* the selected candidates, sorted by document order
    joinedText,     \* the texts of the selected candidates, in joining order
    \* ---- Readability's search for the article container
    rdPc,           \* "start" | "done"
    page,           \* the elements under the parsed element, in document order
    scoredCandidates,   \* the scored elements, in the order they were scored
    contentScore,   \* element -> its __readability.contentScore, in hundredths
    topCandidate,   \* the chosen element, or NoTopCandidate
    fallbackRan,    \* whether the second search (lines 1023-1034) ran
    articleContainer    \* "unset" | "div" | "null" | "threw"

sampleVars == <<sPc, sSite, words, snippet>>
boilerVars == <<bPc, text, cleanedOnce, cleanedTwice>>
linkVars == <<lPc, links, relevantLinks, deduplicatedLinks>>
filterVars == <<fPc, fSite, emails, apiKey, pendingCleans, attempt, lastError,
                requests, callLog, oracle, content, filteredEmails>>
offVars == <<runPc, exit, result, closeCalled, isCreating, setupPromise,
             promiseState, awaiting, offscreenDocument, replies, arrivedDuring,
             setupSaw, sendResponses, otherMessages>>
listenerVars == <<sendResponses, otherMessages>>
cleanVars == <<cPc, htmlString, exchange, cleaned>>
digestVars == <<dPc, listed, details, oracleCalled, summarizerCalled, outcome>>
summaryVars == <<mPc, aggregated, keyConfigured, retryCount, attempts,
                 summaryErrors, delays, summary>>
batchVars == <<batchPc, batchSite, batch, settled, cleanedContents, emailSnippets>>
cascadeVars == <<cascadePc, doc, readabilityWorked, cleanedText, strategiesRun>>
encodingVars == <<ePc, rawText, fixedText>>
anchorVars == <<aPc, anchors, docLinks>>
selectionVars == <<selPc, contentCandidates, selectedContent, joinedText>>
readabilityVars == <<rdPc, page, scoredCandidates, contentScore, topCandidate, fallbackRan, articleContainer>>
vars == <<sampleVars, boilerVars, linkVars, filterVars, offVars, cleanVars,
          digestVars, summaryVars, batchVars, cascadeVars, encodingVars,
          anchorVars, selectionVars, readabilityVars>>

\* What each component's actions leave alone.
notSampleVars == <<boilerVars, linkVars, filterVars, offVars, cleanVars,
                   digestVars, summaryVars, batchVars, cascadeVars,
                   encodingVars, anchorVars, selectionVars, readabilityVars>>
notBoilerVars == <<sampleVars, linkVars, filterVars, offVars, cleanVars,
                   digestVars, summaryVars, batchVars, cascadeVars,
                   encodingVars, anchorVars, selectionVars, readabilityVars>>
notLinkVars == <<sampleVars, boilerVars, filterVars, offVars, cleanVars,
                 digestVars, summaryVars, batchVars, cascadeVars,
                 encodingVars, anchorVars, selectionVars, readabilityVars>>
notFilterVars == <<sampleVars, boilerVars, linkVars, offVars, cleanVars,
                   digestVars, summaryVars, batchVars, cascadeVars,
                   encodingVars, anchorVars, selectionVars, readabilityVars>>
notOffVars == <<sampleVars, boilerVars, linkVars, filterVars, cleanVars,
                digestVars, summaryVars, batchVars, cascadeVars, encodingVars,
                anchorVars, selectionVars, readabilityVars>>
notCleanVars == <<sampleVars, boilerVars, linkVars, filterVars, offVars,
                  digestVars, summaryVars, batchVars, cascadeVars,
                  encodingVars, anchorVars, selectionVars, readabilityVars>>
notDigestVars == <<sampleVars, boilerVars, linkVars, filterVars, offVars,
                   cleanVars, summaryVars, batchVars, cascadeVars,
                   encodingVars, anchorVars, selectionVars, readabilityVars>>
notSummaryVars == <<sampleVars, boilerVars, linkVars, filterVars, offVars,
                    cleanVars, digestVars, batchVars, cascadeVars,
                    encodingVars, anchorVars, selectionVars, readabilityVars>>
notBatchVars == <<sampleVars, boilerVars, linkVars, filterVars, offVars,
                  cleanVars, digestVars, summaryVars, cascadeVars,
                  encodingVars, anchorVars, selectionVars, readabilityVars>>
notCascadeVars == <<sampleVars, boilerVars, linkVars, filterVars, offVars,
                    cleanVars, digestVars, summaryVars, batchVars,
                    encodingVars, anchorVars, selectionVars, readabilityVars>>
notEncodingVars == <<sampleVars, boilerVars, linkVars, filterVars, offVars,
                     cleanVars, digestVars, summaryVars, batchVars,
                     cascadeVars, anchorVars, selectionVars, readabilityVars>>
notAnchorVars == <<sampleVars, boilerVars, linkVars, filterVars, offVars,
                   cleanVars, digestVars, summaryVars, batchVars, cascadeVars,
                   encodingVars, selectionVars, readabilityVars>>
notSelectionVars == <<sampleVars, boilerVars, linkVars, filterVars, offVars,
                      cleanVars, digestVars, summaryVars, batchVars,
                      cascadeVars, encodingVars, anchorVars, readabilityVars>>
notReadabilityVars == <<sampleVars, boilerVars, linkVars, filterVars, offVars,
                        cleanVars, digestVars, summaryVars, batchVars,
                        cascadeVars, encodingVars, anchorVars, selectionVars>>

\* The state of a component that a specification does not run.
ReadabilityIdle ==
    /\ rdPc = "idle"
    /\ page = << >>
    /\ scoredCandidates = << >>
    /\ contentScore = << >>
    /\ topCandidate = 0
    /\ fallbackRan = FALSE
    /\ articleContainer = "unset"

SelectionIdle ==
    /\ selPc = "idle"
    /\ contentCandidates = << >>
    /\ selectedContent = << >>
    /\ joinedText = << >>

AnchorsIdle ==
    /\ aPc = "idle"
    /\ anchors = << >>
    /\ docLinks = << >>

EncodingIdle ==
    /\ ePc = "idle"
    /\ rawText = << >>
    /\ fixedText = << >>

CascadeIdle ==
    /\ cascadePc = "idle"
    /\ doc = << >>
    /\ readabilityWorked = FALSE
    /\ cleanedText = << >>
    /\ strategiesRun = << >>

BatchIdle ==
    /\ batchPc = "idle"
    /\ batchSite = "none"
    /\ batch = << >>
    /\ settled = << >>
    /\ cleanedContents = << >>
    /\ emailSnippets = << >>

SummaryIdle ==
    /\ mPc = "idle"
    /\ aggregated = FALSE
    /\ keyConfigured = FALSE
    /\ retryCount = 0
    /\ attempts = 0
    /\ summaryErrors = << >>
    /\ delays = << >>
    /\ summary = "none"

DigestIdle ==
    /\ dPc = "idle"
    /\ listed = "pending"
    /\ details = << >>
    /\ oracleCalled = FALSE
    /\ summarizerCalled = FALSE
    /\ outcome = "none"

SampleIdle ==
    /\ sPc = "idle"
    /\ sSite = "none"
    /\ words = << >>
    /\ snippet = << >>

BoilerIdle ==
    /\ bPc = "idle"
    /\ text = << >>
    /\ cleanedOnce = << >>
    /\ cleanedTwice = << >>

OffscreenIdle ==
    /\ runPc = << >>
    /\ exit = << >>
    /\ result = << >>
    /\ closeCalled = << >>
    /\ isCreating = FALSE
    /\ setupPromise = 0
    /\ promiseState = << >>
    /\ awaiting = << >>
    /\ offscreenDocument = "none"
    /\ replies = << >>
    /\ arrivedDuring = << >>
    /\ setupSaw = << >>
    /\ sendResponses = << >>
    /\ otherMessages = 0

NothingCleaned == [is |-> "nothing", text |-> << >>, links |-> << >>]

CleanIdle ==
    /\ cPc = "idle"
    /\ htmlString = << >>
    /\ exchange = "none"
    /\ cleaned = NothingCleaned

LinksIdle ==
    /\ lPc = "idle"
    /\ links = << >>
    /\ relevantLinks = << >>
    /\ deduplicatedLinks = << >>

NoContent == [kind |-> "none", decisions |-> << >>]

FilterIdle ==
    /\ fPc = "idle"
    /\ fSite = "none"
    /\ emails = << >>
    /\ apiKey = FALSE
    /\ pendingCleans = {}
    /\ attempt = 0
    /\ lastError = "none"
    /\ requests = 0
    /\ callLog = << >>
    /\ oracle = "pending"
    /\ content = NoContent
    /\ filteredEmails = << >>

Max(a, b) == IF a > b THEN a ELSE b
Min(a, b) == IF a < b THEN a ELSE b

(***************************************************************************)
(* Array.prototype.slice(start, end) on a sequence: indexes are 0-based,   *)
(* a negative index counts from the end, both are clamped to the length.   *)
(***************************************************************************)
SliceIndex(len, k) == IF k < 0 THEN Max(len + k, 0) ELSE Min(k, len)

Slice(s, start, end) ==
    LET from == SliceIndex(Len(s), start)
        to   == SliceIndex(Len(s), end)
    IN  IF from < to THEN SubSeq(s, from + 1, to) ELSE << >>

SliceFrom(s, start) == Slice(s, start, Len(s))

(***************************************************************************)
(* Snippet sampling.  A word is modelled by its 1-based position in the    *)
(* word list, so a snippet tells which positions were sampled.  The        *)
(* separator strings are single tokens that are no word.                   *)
(***************************************************************************)
MaxWords == 300

MiddleMarker == -1      \* '... [middle] ...'
EndMarker == -2         \* '... [end] ...'
LaterMarker == -3       \* '... [later] ...'

HandlerBudget == 100    \* filterRelevantEmails
SnippetBudget == 100    \* extractEmailSnippet
ContentBudget == 80     \* filterEmailsWithDecisions

SampleSites == {"filterRelevantEmails", "extractEmailSnippet", "filterEmailsWithDecisions"}

\* Math.floor(n * 0.3) and Math.floor(n * 0.6): the double product of an
\* integer below 2^50 with 0.3 or 0.6 rounds to the exact integer whenever
\* 3n/10 or 6n/10 is one, so the floor is the integer quotient.
FloorThreeTenths(n) == (3 * n) \div 10
FloorSixTenths(n) == (6 * n) \div 10

\* A middle slice that is one word too long.
HandlerMiddleWordsWide(remainingWords) ==
    LET midPoint == Len(remainingWords) \div 2
    IN  Slice(remainingWords, midPoint - 12, midPoint + 14)

\* filterRelevantEmails: 50 + 25 around the midpoint of the rest + last 25.
HandlerMiddleWords(remainingWords) ==
    LET midPoint == Len(remainingWords) \div 2
    IN  Slice(remainingWords, midPoint - 12, midPoint + 13)

HandlerSnippet(w) ==
    IF Len(w) <= HandlerBudget
    THEN w
    ELSE LET beginningWords == Slice(w, 0, 50)
             remainingWords == SliceFrom(w, 50)
             middleWords    == HandlerMiddleWords(remainingWords)
             endWords       == SliceFrom(remainingWords, -25)
         IN  beginningWords \o <<MiddleMarker>> \o middleWords
                            \o <<EndMarker>> \o endWords

\* extractEmailSnippet: 50 + 35 from the 30% point + 15 from the 60% point.
ExtractLaterContent(w) ==
    Slice(w, FloorSixTenths(Len(w)), FloorSixTenths(Len(w)) + 15)

ExtractSnippet(w) ==
    IF Len(w) <= SnippetBudget
    THEN w
    ELSE LET beginning == Slice(w, 0, 50)
             middle    == Slice(w, FloorThreeTenths(Len(w)), FloorThreeTenths(Len(w)) + 35)
         IN  beginning \o <<MiddleMarker>> \o middle
                       \o <<LaterMarker>> \o ExtractLaterContent(w)

\* filterEmailsWithDecisions: 40 + 25 from the 30% point + 15 from the 60% point.
DecisionsMiddle(w) ==
    Slice(w, FloorThreeTenths(Len(w)), FloorThreeTenths(Len(w)) + 25)

DecisionsContentSnippet(w) ==
    IF Len(w) <= ContentBudget
    THEN w
    ELSE LET beginning    == Slice(w, 0, 40)
             laterContent == Slice(w, FloorSixTenths(Len(w)), FloorSixTenths(Len(w)) + 15)
         IN  beginning \o <<MiddleMarker>> \o DecisionsMiddle(w)
                       \o <<LaterMarker>> \o laterContent

SampleAt(site, w) ==
    CASE site = "filterRelevantEmails"      -> HandlerSnippet(w)
      [] site = "extractEmailSnippet"       -> ExtractSnippet(w)
      [] site = "filterEmailsWithDecisions" -> DecisionsContentSnippet(w)

BudgetAt(site) ==
    CASE site = "filterRelevantEmails"      -> HandlerBudget
      [] site = "extractEmailSnippet"       -> SnippetBudget
      [] site = "filterEmailsWithDecisions" -> ContentBudget

SampleInit ==
    /\ sPc = "start"
    /\ sSite \in SampleSites
    /\ \E n \in 0..MaxWords : words = [i \in 1..n |-> i]
    /\ snippet = << >>

SampleHandler ==
    /\ sPc = "start"
    /\ sSite = "filterRelevantEmails"
    /\ snippet' = HandlerSnippet(words)
    /\ sPc' = "done"
    /\ UNCHANGED <<sSite, words, notSampleVars>>

SampleExtract ==
    /\ sPc = "start"
    /\ sSite = "extractEmailSnippet"
    /\ snippet' = ExtractSnippet(words)
    /\ sPc' = "done"
    /\ UNCHANGED <<sSite, words, notSampleVars>>

SampleDecisions ==
    /\ sPc = "start"
    /\ sSite = "filterEmailsWithDecisions"
    /\ snippet' = DecisionsContentSnippet(words)
    /\ sPc' = "done"
    /\ UNCHANGED <<sSite, words, notSampleVars>>

SampleNext ==
    \/ SampleHandler
    \/ SampleExtract
    \/ SampleDecisions

(***************************************************************************)
(* removeBoilerplateText.  A text is a sequence of tokens that the code    *)
(* sees joined by single spaces; a token is a lower-case word or Gap, the  *)
(* single space a replacement leaves behind (so a Gap between two words    *)
(* stands for a run of three spaces).  The texts of the model are built    *)
(* from Vocabulary; of BOILERPLATE_PATTERNS the model keeps the patterns   *)
(* that can match a text over Vocabulary (the others need a word outside   *)
(* it), with all their alternatives, in the order of the array.            *)
(***************************************************************************)
MaxTextLen == 4

Vocabulary == {"privacy", "policy", "unsubscribe", "click", "here", "news"}

Gap == " "

\* /\bunsubscribe\s+(here|from|link|at|instantly|now)\b/gi
UnsubscribePattern ==
    [flex |-> TRUE,
     phrases |-> << <<"unsubscribe", "here">>, <<"unsubscribe", "from">>,
                    <<"unsubscribe", "link">>, <<"unsubscribe", "at">>,
                    <<"unsubscribe", "instantly">>, <<"unsubscribe", "now">> >>]

\* /\b(privacy\s+policy|terms\s+(of\s+)?(service|use)|cookie\s+policy|data\s+protection)\b/gi
PrivacyPattern ==
    [flex |-> TRUE,
     phrases |-> << <<"privacy", "policy">>, <<"terms", "of", "service">>,
                    <<"terms", "of", "use">>, <<"terms", "service">>,
                    <<"terms", "use">>, <<"cookie", "policy">>,
                    <<"data", "protection">> >>]

\* /\b(click|tap|visit|go\s+to|check\s+out|learn\s+more|read\s+more|see\s+more|find\s+out|discover)\s+(here|now|today)\b/gi
CtaHeads ==
    << <<"click">>, <<"tap">>, <<"visit">>, <<"go", "to">>, <<"check", "out">>,
       <<"learn", "more">>, <<"read", "more">>, <<"see", "more">>,
       <<"find", "out">>, <<"discover">> >>

CtaTails == <<"here", "now", "today">>

CtaPattern ==
    [flex |-> TRUE,
     phrases |-> [n \in 1..(Len(CtaHeads) * Len(CtaTails)) |->
                    CtaHeads[((n - 1) \div Len(CtaTails)) + 1]
                        \o <<CtaTails[((n - 1) % Len(CtaTails)) + 1]>>]]

BOILERPLATE_PATTERNS == <<UnsubscribePattern, PrivacyPattern, CtaPattern>>

\* new RegExp(`\\b${phrase}\\b`, 'gi'): the phrase's blanks are literal
\* single spaces, so its words must follow each other with no Gap between.
StandalonePhrase(phrase) == [flex |-> FALSE, phrases |-> <<phrase>>]

standalonePatterns ==
    << <<"click", "here">>, <<"tap", "here">>, <<"learn", "more">>,
       <<"read", "more">>, <<"see", "more">>, <<"get", "started">>,
       <<"sign", "up">>, <<"log", "in">>, <<"download", "now">>,
       <<"access", "now">>, <<"view", "online">>, <<"view", "in", "browser">>,
       <<"unsubscribe">>, <<"privacy", "policy">>, <<"terms", "of", "service">>,
       <<"follow", "us">>, <<"share", "this">>, <<"forward", "to", "a", "friend">>,
       <<"add", "to", "contacts">>, <<"safe", "senders">>, <<"whitelist">>,
       <<"manage", "preferences">>, <<"email", "preferences">>,
       <<"subscription", "center">>, <<"update", "profile">>, <<"copyright">>,
       <<"all", "rights", "reserved">>, <<"confidential">>, <<"proprietary">>,
       <<"subscribe", "here">>, <<"forwarded", "this", "email">>,
       <<"benefits", "of", "subscribing">>, <<"received", "this", "newsletter">>,
       <<"from", "someone", "else">>, <<"subscribe", "now">>,
       <<"subscribe", "today">>, <<"get", "this", "newsletter">>,
       <<"join", "our", "newsletter">> >>

StandaloneBank ==
    [n \in 1..Len(standalonePatterns) |-> StandalonePhrase(standalonePatterns[n])]

\* The index of the first token at or after i that is no Gap (\s+ runs over
\* the Gaps); Len + 1 when there is none.
RECURSIVE SkipGaps(_, _)
SkipGaps(toks, i) ==
    IF i > Len(toks) \/ toks[i] # Gap THEN i ELSE SkipGaps(toks, i + 1)

\* Matches phrase[k..] at token i; the index after the match, or 0.
RECURSIVE MatchFrom(_, _, _, _, _)
MatchFrom(toks, i, phrase, k, flex) ==
    IF i > Len(toks) \/ toks[i] # phrase[k] THEN 0
    ELSE IF k = Len(phrase) THEN i + 1
    ELSE MatchFrom(toks, IF flex THEN SkipGaps(toks, i + 1) ELSE i + 1,
                   phrase, k + 1, flex)

\* The first alternative of the pattern that matches at token i (the regex
\* engine tries them in order); the index after the match, or 0.
RECURSIVE MatchAny(_, _, _, _)
MatchAny(toks, i, pattern, a) ==
    IF a > Len(pattern.phrases) THEN 0
    ELSE LET e == MatchFrom(toks, i, pattern.phrases[a], 1, pattern.flex)
         IN  IF e # 0 THEN e ELSE MatchAny(toks, i, pattern, a + 1)

\* String.prototype.replace(pattern, ' ') with a global pattern: matches are
\* taken left to right, each replaced by one space, the scan going on after
\* the match.
RECURSIVE ReplaceFrom(_, _, _)
ReplaceFrom(toks, i, pattern) ==
    IF i > Len(toks) THEN << >>
    ELSE LET e == MatchAny(toks, i, pattern, 1)
         IN  IF e # 0
             THEN <<Gap>> \o ReplaceFrom(toks, e, pattern)
             ELSE <<toks[i]>> \o ReplaceFrom(toks, i + 1, pattern)

ReplaceAll(toks, pattern) == ReplaceFrom(toks, 1, pattern)

\* patterns.forEach(pattern => { cleanedText = cleanedText.replace(pattern, ' ') })
\* from pattern k on.  (Comparing the replaced text with the old one makes
\* the tool compute each replacement before the next one starts.)
RECURSIVE ApplyPatterns(_, _, _)
ApplyPatterns(toks, patterns, k) ==
    IF k > Len(patterns) THEN toks
    ELSE LET replaced == ReplaceAll(toks, patterns[k])
         IN  IF replaced = toks
             THEN ApplyPatterns(toks, patterns, k + 1)
             ELSE ApplyPatterns(replaced, patterns, k + 1)

\* cleanedText.replace(/\s+/g, ' ').trim()
CollapseWhitespace(toks) == SelectSeq(toks, LAMBDA t : t # Gap)

removeBoilerplateText(t) ==
    IF t = << >> THEN << >>
    ELSE LET afterRegex == ApplyPatterns(t, BOILERPLATE_PATTERNS, 1)
             afterStandalone == ApplyPatterns(afterRegex, StandaloneBank, 1)
         IN  CollapseWhitespace(afterStandalone)

RECURSIVE TextsOfLength(_)
TextsOfLength(n) ==
    IF n = 0 THEN {<< >>}
    ELSE {Append(t, w) : t \in TextsOfLength(n - 1), w \in Vocabulary}

Texts == UNION {TextsOfLength(n) : n \in 0..MaxTextLen}

BoilerInit ==
    /\ bPc = "start"
    /\ text \in Texts
    /\ cleanedOnce = << >>
    /\ cleanedTwice = << >>

\* removeBoilerplateText(text)
BoilerFirst ==
    /\ bPc = "start"
    /\ cleanedOnce' = removeBoilerplateText(text)
    /\ bPc' = "once"
    /\ UNCHANGED <<text, cleanedTwice, notBoilerVars>>

\* removeBoilerplateText applied to its own output
BoilerAgain ==
    /\ bPc = "once"
    /\ cleanedTwice' = removeBoilerplateText(cleanedOnce)
    /\ bPc' = "twice"
    /\ UNCHANGED <<text, cleanedOnce, notBoilerVars>>

BoilerNext ==
    \/ BoilerFirst
    \/ BoilerAgain

InitBoiler ==
    /\ BoilerInit
    /\ SampleIdle
    /\ LinksIdle
    /\ FilterIdle
    /\ OffscreenIdle
    /\ CleanIdle
    /\ DigestIdle
    /\ SummaryIdle
    /\ BatchIdle
    /\ CascadeIdle
    /\ EncodingIdle
    /\ AnchorsIdle
    /\ SelectionIdle
    /\ ReadabilityIdle

SpecBoiler == InitBoiler /\ [][BoilerNext]_vars

\* C9: removeBoilerplateText is idempotent: applying it to its own output
\* changes nothing.
C9_Idempotent == bPc = "twice" => cleanedTwice = cleanedOnce

(***************************************************************************)
(* filterRelevantLinks.  An anchor text is a sequence of lower-case words  *)
(* (the patterns are case-insensitive); a URL string is a sequence of      *)
(* tokens: an origin, path segments, a query, a fragment.  The empty       *)
(* string is the empty sequence.                                           *)
(***************************************************************************)
MaxLinks == 2

Origins == {"https://x.com", "HTTPS://X.COM"}
QueryTokens == {"?utm_source=1", "?utm_source=2"}
FragmentTokens == {"#top"}

\* new URL(url) succeeds on an absolute URL only.
UrlParses(url) == Len(url) >= 1 /\ url[1] \in Origins

\* URL serialisation lower-cases the scheme and the host.
SerializeOrigin(origin) == "https://x.com"

\* The index of the first query or fragment token, Len + 1 when there is none.
RECURSIVE PathEnd(_, _)
PathEnd(url, i) ==
    IF i > Len(url) \/ url[i] \in QueryTokens \cup FragmentTokens
    THEN i
    ELSE PathEnd(url, i + 1)

\* A normalisation that maps every string that does not parse to the empty
\* string.
normalizeUrlOrEmpty(url) ==
    IF ~UrlParses(url) THEN << >>
    ELSE LET path == SubSeq(url, 2, PathEnd(url, 2) - 1)
         IN  <<SerializeOrigin(url[1])>> \o (IF path = << >> THEN <<"/">> ELSE path)

\* urlObj.search = ''; urlObj.hash = ''; urlObj.toString(): an empty path
\* is serialised as "/".  A string that does not parse is returned as it is.
normalizeUrl(url) ==
    IF ~UrlParses(url) THEN url
    ELSE LET path == SubSeq(url, 2, PathEnd(url, 2) - 1)
         IN  <<SerializeOrigin(url[1])>> \o (IF path = << >> THEN <<"/">> ELSE path)

irrelevantPatterns == <<
    [kind |-> "leadThenSpace",
     words   |-> {"click", "tap", "view", "see", "get", "download", "access", "sign", "log",
                    "subscribe", "unsubscribe", "manage", "update", "share", "follow", "like",
                    "join"},
     phrases |-> {}],
    [kind |-> "whole",
     words   |-> {"here", "now", "today", "all", "full", "complete", "entire", "details", "info",
                    "information"},
     phrases |-> {}],
    [kind |-> "whole",
     words   |-> {"privacy", "terms", "policy", "legal", "copyright", "contact", "about", "help",
                    "support", "faq"},
     phrases |-> {}],
    [kind |-> "any",
     words   |-> {"preferences", "settings", "profile", "account", "subscription", "newsletter",
                    "email"},
     phrases |-> {}],
    [kind |-> "whole",
     words   |-> {"facebook", "twitter", "linkedin", "instagram", "youtube", "social"},
     phrases |-> {}],
    [kind |-> "lead",
     words   |-> {"forward", "share", "send", "tell", "invite"},
     phrases |-> {}],
    [kind |-> "any",
     words   |-> {"advertisement", "ad", "promo", "promotion", "offer", "deal", "sale", "discount"},
     phrases |-> {}],
    [kind |-> "lead",
     words   |-> {},
     phrases |-> {}],
    [kind |-> "any",
     words   |-> {"channel", "playlist", "stream", "streaming", "listen", "watch", "download",
                    "install", "try", "join"},
     phrases |-> {<<"free", "trial">>, <<"get", "started">>, <<"sign", "up">>}],
    [kind |-> "any",
     words   |-> {},
     phrases |-> {<<"app", "store">>, <<"play", "store">>, <<"download", "now">>, <<"available",
                    "now">>, <<"get", "it">>, <<"try", "it">>, <<"use", "it">>, <<"do", "it",
                    "here">>}],
    [kind |-> "whole",
     words   |-> {"spotify", "netflix", "disney+", "hulu"},
     phrases |-> {<<"youtube", "channel">>, <<"apple", "music">>, <<"amazon", "prime">>,
                    <<"twitch", "stream">>, <<"instagram", "page">>, <<"facebook", "page">>,
                    <<"twitter", "account">>, <<"linkedin", "profile">>}],
    [kind |-> "any",
     words   |-> {},
     phrases |-> {<<"follow", "us">>, <<"like", "us">>, <<"subscribe", "to">>, <<"join", "our">>,
                    <<"visit", "our">>, <<"check", "out", "our">>}],
    [kind |-> "any",
     words   |-> {},
     phrases |-> {<<"i", "liked", "it">>, <<"i", "didn't", "like", "it">>, <<"i", "like", "it">>,
                    <<"i", "don't", "like", "it">>, <<"liked", "it">>, <<"didn't", "like", "it">>,
                    <<"like", "this">>, <<"don't", "like">>, <<"thumbs", "up">>, <<"thumbs",
                    "down">>}],
    [kind |-> "any",
     words   |-> {"rating", "feedback", "survey", "poll", "vote", "comment", "reply", "respond"},
     phrases |-> {<<"rate", "this">>, <<"review", "this">>, <<"tell", "us">>, <<"let", "us",
                    "know">>}],
    [kind |-> "any",
     words   |-> {"yes", "no", "maybe", "agree", "disagree"},
     phrases |-> {}],
    [kind |-> "whole",
     words   |-> {"good", "bad", "great", "terrible", "awesome", "amazing", "love", "hate", "meh",
                    "okay", "ok"},
     phrases |-> {}],
    [kind |-> "any",
     words   |-> {"referral", "advertise", "advertisement", "sponsor", "sponsored", "jobs",
                    "careers", "hiring", "resume"},
     phrases |-> {<<"track", "your", "referrals">>}],
    [kind |-> "any",
     words   |-> {},
     phrases |-> {<<"if", "your", "company", "is", "interested">>, <<"reaching", "an",
                    "audience">>, <<"decision", "makers">>, <<"send", "a", "friend">>, <<"job",
                    "posting">>, <<"career", "opportunity">>}],
    [kind |-> "any",
     words   |-> {"unsubscribe", "subscription"},
     phrases |-> {<<"manage", "preferences">>, <<"email", "preferences">>, <<"newsletter",
                    "settings">>, <<"privacy", "policy">>, <<"terms", "of", "service">>}],
    [kind |-> "any",
     words   |-> {"support"},
     phrases |-> {<<"contact", "us">>, <<"about", "us">>, <<"our", "team">>, <<"our", "company">>,
                    <<"our", "mission">>, <<"help", "center">>, <<"customer", "service">>}] >>

relevantIndicators == <<
    [kind |-> "any",
     words   |-> {"article", "report", "study", "research", "analysis", "survey", "whitepaper",
                    "guide", "tutorial", "course", "webinar", "podcast", "video", "interview",
                    "news", "announcement", "launch", "release", "update", "review", "opinion",
                    "blog", "post"},
     phrases |-> {}],
    [kind |-> "any",
     words   |-> {"startup", "company", "funding", "investment", "venture", "capital", "ipo",
                    "acquisition", "merger", "partnership", "collaboration", "meta", "google",
                    "apple", "microsoft", "amazon", "openai", "anthropic", "tesla", "netflix",
                    "uber", "airbnb", "cursor", "figma", "perplexity", "github", "gitlab", "notion",
                    "slack", "discord", "zoom", "salesforce", "adobe", "nvidia", "intel", "amd",
                    "qualcomm", "spacex", "stripe", "paypal", "square", "shopify", "atlassian",
                    "dropbox", "box", "cloudflare", "vercel", "mongodb", "redis", "docker",
                    "kubernetes", "aws", "azure", "gcp", "snowflake", "databricks", "palantir",
                    "unity", "epic", "roblox", "tiktok", "twitter", "x", "linkedin", "instagram",
                    "whatsapp", "telegram", "signal", "spotify", "youtube", "twitch", "reddit",
                    "pinterest", "snapchat", "bytedance", "tencent", "alibaba", "baidu", "samsung",
                    "sony", "lg", "huawei", "xiaomi", "oneplus", "coinbase", "binance", "robinhood",
                    "plaid", "affirm", "klarna", "doordash", "instacart", "lyft", "waymo", "cruise",
                    "rivian", "lucid", "nio", "byd", "canva", "miro", "linear", "airtable",
                    "zapier", "mailchimp", "hubspot", "zendesk", "intercom", "twilio", "sendgrid",
                    "okta", "auth0", "supabase", "firebase", "planetscale", "hasura", "prisma",
                    "next.js", "react", "vue", "angular", "svelte", "tailwind", "bootstrap",
                    "wordpress", "wix", "squarespace", "webflow", "framer"},
     phrases |-> {}],
    [kind |-> "any",
     words   |-> {"ai", "ml", "automation", "technology", "tech", "innovation", "digital",
                    "software", "platform", "tool", "app", "product", "service", "techniques",
                    "developers", "embedding", "reranker", "rag", "retrieval", "vector",
                    "transformer", "llm", "gpt", "model", "algorithm", "pioneer", "researcher"},
     phrases |-> {<<"artificial", "intelligence">>, <<"machine", "learning">>, <<"reinforcement",
                    "learning">>, <<"deep", "learning">>, <<"data", "science">>, <<"semantic",
                    "search">>, <<"neural", "network">>}],
    [kind |-> "any",
     words   |-> {"ceo", "founder", "executive", "leader", "expert", "scientist", "researcher",
                    "engineer", "developer", "designer", "recruits", "hires", "hiring", "joins"},
     phrases |-> {}],
    [kind |-> "any",
     words   |-> {"conference", "event", "summit", "meetup", "workshop", "hackathon", "demo",
                    "presentation", "talk", "keynote"},
     phrases |-> {}],
    [kind |-> "any",
     words   |-> {"market", "industry", "trend", "growth", "strategy", "business", "finance",
                    "economy", "economic", "investment"},
     phrases |-> {}] >>

\* phrase occurs in t as consecutive words
ContainsPhrase(t, phrase) ==
    \E i \in 1..(Len(t) - Len(phrase) + 1) : SubSeq(t, i, i + Len(phrase) - 1) = phrase

\* pattern.test(linkText), by the anchoring of the pattern:
\*   leadThenSpace  /^(w1|w2|...)\s/      lead   /^(w1|...)\b/
\*   whole          /^(w1|...)$/          any    /\b(w1|...)\b/
\* (/^(...|\d{4}|\w+@\w+)/ and the emoji alternatives need characters that
\* no anchor text of the model holds.)
PatternTest(pattern, t) ==
    CASE pattern.kind = "leadThenSpace" -> Len(t) >= 2 /\ t[1] \in pattern.words
      [] pattern.kind = "lead"  -> Len(t) >= 1 /\ t[1] \in pattern.words
      [] pattern.kind = "whole" ->
            \/ Len(t) = 1 /\ t[1] \in pattern.words
            \/ t \in pattern.phrases
      [] pattern.kind = "any"   ->
            \/ \E i \in 1..Len(t) : t[i] \in pattern.words
            \/ \E phrase \in pattern.phrases : ContainsPhrase(t, phrase)

MatchesAny(bank, t) == \E k \in 1..Len(bank) : PatternTest(bank[k], t)

\* The anchor words of fewer than three characters; every other word of
\* the model has three or more.
OneCharWords == {"x", "i"}
TwoCharWords == {"ok", "ai", "ml", "ad", "lg", "no", "it", "us", "to", "up", "in"}

\* The length of a word, as far as the comparison with 3 needs it.
WordLength(w) ==
    IF w \in OneCharWords THEN 1 ELSE IF w \in TwoCharWords THEN 2 ELSE 3

\* linkText.length < 3, linkText being the trimmed words joined by blanks
TooShort(t) ==
    \/ Len(t) = 0
    \/ Len(t) = 1 /\ WordLength(t[1]) < 3
    \/ Len(t) = 2 /\ WordLength(t[1]) + 1 + WordLength(t[2]) < 3

genericPhrases ==
    {<<"click", "here">>, <<"learn", "more">>, <<"see", "more">>,
     <<"get", "started">>, <<"sign", "up">>, <<"log", "in">>}

\* A callback that asks the relevant indicators before the irrelevant patterns.
IsRelevantLinkIndicatorsFirst(link) ==
    LET linkText == link.text
    IN  IF TooShort(linkText) THEN FALSE
        ELSE IF MatchesAny(relevantIndicators, linkText) THEN TRUE
        ELSE IF MatchesAny(irrelevantPatterns, linkText) THEN FALSE
        ELSE Len(linkText) >= 3 /\ Len(linkText) <= 30 /\ linkText \notin genericPhrases

\* The callback of the first pass, links.filter(link => ...).
IsRelevantLink(link) ==
    LET linkText == link.text
    IN  IF TooShort(linkText) THEN FALSE
        ELSE IF MatchesAny(irrelevantPatterns, linkText) THEN FALSE
        ELSE IF MatchesAny(relevantIndicators, linkText) THEN TRUE
        ELSE Len(linkText) >= 3 /\ Len(linkText) <= 30 /\ linkText \notin genericPhrases

\* link.url || link.href || ''
OriginalUrl(link) ==
    IF link.url # << >> THEN link.url
    ELSE IF link.href # << >> THEN link.href
    ELSE << >>

\* A key that tells links with different anchor texts apart.
DedupKeyWithText(link) == <<link.text, normalizeUrl(OriginalUrl(link))>>

\* The key of the second pass: the normalized URL alone.
DedupKey(link) == normalizeUrl(OriginalUrl(link))

\* for (const link of relevantLinks) { if (!seenUrls.has(key)) { add; push } }
RECURSIVE DedupFrom(_, _, _)
DedupFrom(rel, i, seenUrls) ==
    IF i > Len(rel) THEN << >>
    ELSE IF DedupKey(rel[i]) \notin seenUrls
         THEN <<rel[i]>> \o DedupFrom(rel, i + 1, seenUrls \cup {DedupKey(rel[i])})
         ELSE DedupFrom(rel, i + 1, seenUrls)

\* A second pass that keeps the last link of every key instead of the first.
DeduplicateKeepLast(rel) ==
    LET keep == {i \in 1..Len(rel) :
                    \A j \in (i + 1)..Len(rel) : DedupKey(rel[j]) # DedupKey(rel[i])}
        F[i \in 0..Len(rel)] ==
            IF i = 0 THEN << >>
            ELSE IF i \in keep THEN Append(F[i - 1], rel[i]) ELSE F[i - 1]
    IN  F[Len(rel)]

Deduplicate(rel) == DedupFrom(rel, 1, {})

AnchorTexts ==
    {<<"read", "the", "report">>, <<"full", "report", "here">>,
     <<"view", "the", "report">>, <<"click", "here">>, <<"ok">>, <<"ai">>}

\* The {url, href} pairs of the model: three absolute URLs of one article
\* that differ in tracking query, case and fragment, another article, an
\* unresolved relative href, a link with neither url nor href.
UrlPairs ==
    {[url |-> <<"https://x.com", "/a", "?utm_source=1">>,
      href |-> <<"https://x.com", "/a", "?utm_source=1">>],
     [url |-> <<"https://x.com", "/a", "?utm_source=2">>,
      href |-> <<"https://x.com", "/a", "?utm_source=2">>],
     [url |-> << >>, href |-> <<"HTTPS://X.COM", "/a", "#top">>],
     [url |-> <<"https://x.com", "/b">>, href |-> <<"/b">>],
     [url |-> << >>, href |-> <<"/a", "?utm_source=1">>],
     [url |-> << >>, href |-> << >>]}

LinkUniverse ==
    {[text |-> t, url |-> u.url, href |-> u.href] : t \in AnchorTexts, u \in UrlPairs}

RECURSIVE LinkListsOfLength(_)
LinkListsOfLength(n) ==
    IF n = 0 THEN {<< >>}
    ELSE {Append(l, x) : l \in LinkListsOfLength(n - 1), x \in LinkUniverse}

LinksInit ==
    /\ lPc = "start"
    /\ links \in UNION {LinkListsOfLength(n) : n \in 0..MaxLinks}
    /\ relevantLinks = << >>
    /\ deduplicatedLinks = << >>

\* if (!links || links.length === 0) return [];
LinksEmpty ==
    /\ lPc = "start"
    /\ links = << >>
    /\ deduplicatedLinks' = << >>
    /\ lPc' = "done"
    /\ UNCHANGED <<links, relevantLinks, notLinkVars>>

\* First pass: filter for relevance.
LinksRelevancePass ==
    /\ lPc = "start"
    /\ links # << >>
    /\ relevantLinks' = SelectSeq(links, IsRelevantLink)
    /\ lPc' = "relevance"
    /\ UNCHANGED <<links, deduplicatedLinks, notLinkVars>>

\* Second pass: deduplicate on the normalized URL, and return.
LinksDedupPass ==
    /\ lPc = "relevance"
    /\ deduplicatedLinks' = Deduplicate(relevantLinks)
    /\ lPc' = "done"
    /\ UNCHANGED <<links, relevantLinks, notLinkVars>>

LinksNext ==
    \/ LinksEmpty
    \/ LinksRelevancePass
    \/ LinksDedupPass

InitLinks ==
    /\ LinksInit
    /\ SampleIdle
    /\ BoilerIdle
    /\ FilterIdle
    /\ OffscreenIdle
    /\ CleanIdle
    /\ DigestIdle
    /\ SummaryIdle
    /\ BatchIdle
    /\ CascadeIdle
    /\ EncodingIdle
    /\ AnchorsIdle
    /\ SelectionIdle
    /\ ReadabilityIdle

SpecLinks == InitLinks /\ [][LinksNext]_vars

\* C7: the returned list holds no two links whose normalized URLs (link.url,
\* else link.href, with query string and fragment cleared) are equal.
C7_DedupInvariant ==
    lPc = "done" =>
        \A i, j \in 1..Len(deduplicatedLinks) :
            i < j => normalizeUrl(OriginalUrl(deduplicatedLinks[i]))
                        # normalizeUrl(OriginalUrl(deduplicatedLinks[j]))

\* Two relevant links to one article, differing in tracking query and in
\* anchor text, went in and one link came out.
C7_Witness ==
    /\ lPc = "done"
    /\ Len(relevantLinks) = 2
    /\ relevantLinks[1].text # relevantLinks[2].text
    /\ relevantLinks[1].url # relevantLinks[2].url
    /\ UrlParses(relevantLinks[1].url) /\ UrlParses(relevantLinks[2].url)
    /\ Len(deduplicatedLinks) = 1

\* The positions of the input whose link is relevant and is the first
\* relevant link of the input with its normalized URL.
FirstRelevantPositions(l) ==
    {i \in 1..Len(l) :
        /\ IsRelevantLink(l[i])
        /\ \A j \in 1..(i - 1) :
              IsRelevantLink(l[j])
                  => normalizeUrl(OriginalUrl(l[j])) # normalizeUrl(OriginalUrl(l[i]))}

\* The elements of l at the positions of P, in the order of l.
RECURSIVE Restrict(_, _, _)
Restrict(l, P, i) ==
    IF i > Len(l) THEN << >>
    ELSE (IF i \in P THEN <<l[i]>> ELSE << >>) \o Restrict(l, P, i + 1)

\* C8: the returned list is the input restricted, in input order, to the
\* relevant links that are the first relevant link with their normalized
\* URL, whatever the anchor texts are.
C8_FirstOccurrenceKept ==
    lPc = "done" => deduplicatedLinks = Restrict(links, FirstRelevantPositions(links), 1)

\* "read the report" and "full report here" to the same article: the first
\* one is the one returned.
C8_Witness ==
    /\ lPc = "done"
    /\ Len(links) = 2
    /\ links[1].text = <<"full", "report", "here">>
    /\ links[2].text = <<"read", "the", "report">>
    /\ links[1].url = <<"https://x.com", "/a", "?utm_source=2">>
    /\ links[2].url = <<"https://x.com", "/a", "?utm_source=1">>
    /\ deduplicatedLinks = <<links[1]>>

\* The positions of the returned list whose link has the original URL u.
ReturnedWithUrl(u) ==
    {j \in 1..Len(deduplicatedLinks) : OriginalUrl(deduplicatedLinks[j]) = u}

\* C17: a URL string that does not parse (a relative href, the empty
\* string) is its own deduplication key, untouched: filterRelevantLinks
\* returns, and of the relevant links with one such string exactly one is
\* returned, the first, whatever other unparsable strings are in the list.
C17_RawStringIsKey ==
    /\ \A u \in {p.href : p \in UrlPairs} \cup {p.url : p \in UrlPairs} :
           ~UrlParses(u) => normalizeUrl(u) = u
    /\ lPc = "relevance" => ENABLED LinksDedupPass
    /\ lPc = "done" =>
           \A k \in 1..Len(links) :
               (IsRelevantLink(links[k]) /\ ~UrlParses(OriginalUrl(links[k])))
                   => Cardinality(ReturnedWithUrl(OriginalUrl(links[k]))) = 1

\* Two relevant links, one with a relative href and one with an empty URL:
\* both are returned.
C17_Witness ==
    /\ lPc = "done"
    /\ Len(links) = 2
    /\ IsRelevantLink(links[1]) /\ IsRelevantLink(links[2])
    /\ OriginalUrl(links[1]) = <<"/a", "?utm_source=1">>
    /\ OriginalUrl(links[2]) = << >>
    /\ deduplicatedLinks = links

\* C16: in the relevance pass a link whose trimmed anchor text is shorter
\* than 3 characters or matches an irrelevant pattern is dropped, also when
\* it matches a relevant indicator or is a phrase of 3 to 30 words; a link
\* with the anchor text 'click here' is dropped whatever its href is.
C16_IrrelevantTakesPrecedence ==
    lPc \in {"relevance", "done"} =>
        \A k \in 1..Len(links) :
            (\/ TooShort(links[k].text)
             \/ MatchesAny(irrelevantPatterns, links[k].text)
             \/ links[k].text = <<"click", "here">>)
                => \A j \in 1..Len(relevantLinks) : relevantLinks[j] # links[k]

\* 'click here' with a valid href and 'view the report', which matches an
\* irrelevant pattern and a relevant indicator and has three words: both
\* are dropped.
C16_Witness ==
    /\ lPc = "relevance"
    /\ Len(links) = 2
    /\ links[1].text = <<"click", "here">>
    /\ UrlParses(links[1].href)
    /\ links[2].text = <<"view", "the", "report">>
    /\ MatchesAny(irrelevantPatterns, links[2].text)
    /\ MatchesAny(relevantIndicators, links[2].text)
    /\ relevantLinks = << >>

(***************************************************************************)
(* filterRelevantEmails (openai-handler.js), which calls the oracle        *)
(* through callOpenAI, and filterEmailsWithDecisions (utils.js), which     *)
(* calls fetch itself.  An email is modelled by its id.  A step is what    *)
(* the code does between two awaits.                                       *)
(***************************************************************************)
MaxEmails == 2
MaxDecisions == 2

MAX_RETRIES == 3
RETRY_DELAY == 1000

FilterSites == {"filterRelevantEmails", "filterEmailsWithDecisions"}

EmailIds == 1..MaxEmails

\* The ids a decision can name: the emails' ids, and 0, the id of no email.
DecisionIds == 0..MaxEmails

RECURSIVE EmailListsOfLength(_)
EmailListsOfLength(n) ==
    IF n = 0 THEN {<< >>}
    ELSE {Append(l, id) : l \in EmailListsOfLength(n - 1), id \in EmailIds}

\* Lists of emails with distinct ids (a mailbox gives every message its id).
EmailLists ==
    {l \in UNION {EmailListsOfLength(n) : n \in 0..MaxEmails} :
        \A a, b \in 1..Len(l) : a # b => l[a] # l[b]}

Decisions == [id : DecisionIds, include : BOOLEAN]

RECURSIVE DecisionListsOfLength(_)
DecisionListsOfLength(n) ==
    IF n = 0 THEN {<< >>}
    ELSE {Append(l, d) : l \in DecisionListsOfLength(n - 1), d \in Decisions}

\* What response.choices[0].message.content of an answer can be:
\*   noChoices          the answer has no choices[0].message (TypeError)
\*   notJson            JSON.parse throws
\*   jsonNull           JSON.parse gives null (content.emailDecisions throws)
\*   noDecisionsKey     an object whose emailDecisions is missing or falsy
\*   decisionsNotArray  emailDecisions is truthy and has no forEach
\*   decisions          emailDecisions is an array of {id, include, reason}
MalformedKinds ==
    {"noChoices", "notJson", "jsonNull", "noDecisionsKey", "decisionsNotArray"}

Contents ==
    {[kind |-> k, decisions |-> << >>] : k \in MalformedKinds}
        \cup {[kind |-> "decisions", decisions |-> l] :
                l \in UNION {DecisionListsOfLength(n) : n \in 0..MaxDecisions}}

\* The catch block of both filters: return the original list.
FailClosed(list) == << >>

FailOpen(list) == list

\* new Set(decisions.filter(d => d.include).map(d => d.id)), with mutants:
\* every decided id; the ids whose last decision includes.
DecidedIds(decisions) == {decisions[k].id : k \in 1..Len(decisions)}

LastWinsIds(decisions) ==
    {decisions[k].id : k \in {n \in 1..Len(decisions) :
        /\ decisions[n].include
        /\ \A m \in (n + 1)..Len(decisions) : decisions[m].id # decisions[n].id}}

RelevantIds(decisions) ==
    {decisions[k].id : k \in {n \in 1..Len(decisions) : decisions[n].include}}

\* Lines 644-661 (and 902-919): parse the content, build relevantIds,
\* filter; a throw anywhere lands in the catch block.
ParseAndFilter(list, c) ==
    CASE c.kind \in {"noChoices", "notJson", "jsonNull", "decisionsNotArray"} ->
            FailOpen(list)
      [] c.kind = "noDecisionsKey" ->
            SelectSeq(list, LAMBDA id : id \in RelevantIds(<< >>))
      [] c.kind = "decisions" ->
            SelectSeq(list, LAMBDA id : id \in RelevantIds(c.decisions))

FilterInit ==
    /\ fPc = "start"
    /\ fSite \in FilterSites
    /\ emails \in EmailLists
    /\ apiKey \in BOOLEAN
    /\ pendingCleans = {}
    /\ attempt = 0
    /\ lastError = "none"
    /\ requests = 0
    /\ callLog = << >>
    /\ oracle = "pending"
    /\ content = NoContent
    /\ filteredEmails = << >>

\* if (!emails || emails.length === 0) return [];
FilterEmpty ==
    /\ fPc = "start"
    /\ emails = << >>
    /\ filteredEmails' = << >>
    /\ fPc' = "done"
    /\ UNCHANGED <<fSite, emails, apiKey, callLog, pendingCleans, attempt, lastError,
                   requests, oracle, content, notFilterVars>>

\* emails.map(email => cleanEmailContent(email.body)); await Promise.all(...)
FilterStart ==
    /\ fPc = "start"
    /\ emails # << >>
    /\ pendingCleans' = 1..Len(emails)
    /\ fPc' = "cleaning"
    /\ UNCHANGED <<fSite, emails, apiKey, callLog, attempt, lastError, requests, oracle,
                   content, filteredEmails, notFilterVars>>

\* A Promise.all that resolves with the first promise that settles.
FirstSettled(pending) == TRUE

\* await Promise.all(emailCleaningPromises) resolves when no call is pending.
AllCleaned(pending) == pending = {}

\* One cleanEmailContent call settles.  With the last one Promise.all
\* resolves, the snippets and the prompt are built, and the oracle call starts.
CleanSettles(k) ==
    /\ fPc = "cleaning"
    /\ k \in pendingCleans
    /\ pendingCleans' = pendingCleans \ {k}
    /\ fPc' = IF AllCleaned(pendingCleans') THEN "key" ELSE "cleaning"
    /\ UNCHANGED <<fSite, emails, apiKey, callLog, attempt, lastError, requests, oracle,
                   content, filteredEmails, notFilterVars>>

\* The entries of callLog: a request with the way it ended, or a delay
\* waited, in ms.
Requested(ended) == [event |-> ended, ms |-> 0]

Waited(delay) == [event |-> "delay", ms |-> delay]

\* The oracle call threw: the catch block returns the original list.
OracleFails ==
    /\ oracle' = "failed"
    /\ filteredEmails' = FailOpen(emails)
    /\ fPc' = "done"

\* initializeOpenAI() throws without a key.  getOpenAIApiKey(), which
\* filterEmailsWithDecisions imports from the handler, is exported by no
\* module of the repository: its call gives a key, gives none, or throws, and
\* the last two both end in the catch block.
KeyMissing ==
    /\ fPc = "key"
    /\ ~apiKey
    /\ OracleFails
    /\ UNCHANGED <<fSite, emails, apiKey, callLog, pendingCleans, attempt, lastError,
                   requests, content, notFilterVars>>

KeyFound ==
    /\ fPc = "key"
    /\ apiKey
    /\ fPc' = "fetch"
    /\ UNCHANGED <<fSite, emails, apiKey, callLog, pendingCleans, attempt, lastError,
                   requests, oracle, content, filteredEmails, notFilterVars>>

\* callOpenAI: an attempt ended in the catch block of the loop (lastError =
\* error); the loop goes on, or ends and callOpenAI throws lastError.
AttemptFailed(error) ==
    /\ lastError' = error
    /\ attempt' = attempt + 1
    /\ IF attempt + 1 < MAX_RETRIES
       THEN /\ fPc' = "fetch"
            /\ UNCHANGED <<oracle, filteredEmails>>
       ELSE OracleFails

\* callOpenAI: fetch rejects (network failure)
CallNetworkError ==
    /\ fPc = "fetch"
    /\ fSite = "filterRelevantEmails"
    /\ requests' = requests + 1
    /\ callLog' = Append(callLog, Requested("network"))
    /\ AttemptFailed("network")
    /\ UNCHANGED <<fSite, emails, apiKey, pendingCleans, content, notFilterVars>>

\* callOpenAI: a non-OK status other than 429: throw lastError, inside the
\* try block of the loop, so the loop's own catch takes it
CallErrorStatus ==
    /\ fPc = "fetch"
    /\ fSite = "filterRelevantEmails"
    /\ requests' = requests + 1
    /\ callLog' = Append(callLog, Requested("status"))
    /\ AttemptFailed("status")
    /\ UNCHANGED <<fSite, emails, apiKey, pendingCleans, content, notFilterVars>>

\* callOpenAI: response.ok, and response.json() rejects
CallBodyUnreadable ==
    /\ fPc = "fetch"
    /\ fSite = "filterRelevantEmails"
    /\ requests' = requests + 1
    /\ callLog' = Append(callLog, Requested("body"))
    /\ AttemptFailed("body")
    /\ UNCHANGED <<fSite, emails, apiKey, pendingCleans, content, notFilterVars>>

\* callOpenAI: status 429: lastError is set and the backoff timer starts
CallRateLimited ==
    /\ fPc = "fetch"
    /\ fSite = "filterRelevantEmails"
    /\ requests' = requests + 1
    /\ callLog' = Append(callLog, Requested("rateLimit"))
    /\ lastError' = "rateLimit"
    /\ fPc' = "backoff"
    /\ UNCHANGED <<fSite, emails, apiKey, pendingCleans, attempt, oracle, content,
                   filteredEmails, notFilterVars>>

\* callOpenAI: the backoff timer fires; i++, and after the last attempt
\* throw lastError
BackoffElapses ==
    /\ fPc = "backoff"
    /\ callLog' = Append(callLog, Waited(RETRY_DELAY * 2^attempt))
    /\ AttemptFailed(lastError)
    /\ UNCHANGED <<fSite, emails, apiKey, pendingCleans, requests, content,
                   notFilterVars>>

\* callOpenAI: response.ok: return await response.json()
CallReturns ==
    /\ fPc = "fetch"
    /\ fSite = "filterRelevantEmails"
    /\ requests' = requests + 1
    /\ callLog' = Append(callLog, Requested("ok"))
    /\ oracle' = "returned"
    /\ fPc' = "parse"
    /\ UNCHANGED <<fSite, emails, apiKey, pendingCleans, attempt, lastError,
                   content, filteredEmails, notFilterVars>>

\* filterEmailsWithDecisions: fetch rejects
DebugNetworkError ==
    /\ fPc = "fetch"
    /\ fSite = "filterEmailsWithDecisions"
    /\ requests' = requests + 1
    /\ callLog' = Append(callLog, Requested("network"))
    /\ lastError' = "network"
    /\ OracleFails
    /\ UNCHANGED <<fSite, emails, apiKey, pendingCleans, attempt, content,
                   notFilterVars>>

\* filterEmailsWithDecisions: a non-OK status is not looked at; the error
\* body has no choices, so result.choices[0] throws
DebugErrorStatus ==
    /\ fPc = "fetch"
    /\ fSite = "filterEmailsWithDecisions"
    /\ requests' = requests + 1
    /\ callLog' = Append(callLog, Requested("status"))
    /\ lastError' = "status"
    /\ oracle' = "failed"
    /\ content' = [kind |-> "noChoices", decisions |-> << >>]
    /\ filteredEmails' = ParseAndFilter(emails, content')
    /\ fPc' = "done"
    /\ UNCHANGED <<fSite, emails, apiKey, pendingCleans, attempt, notFilterVars>>

\* filterEmailsWithDecisions: the oracle answers with an OK status
DebugReturns ==
    /\ fPc = "fetch"
    /\ fSite = "filterEmailsWithDecisions"
    /\ requests' = requests + 1
    /\ callLog' = Append(callLog, Requested("ok"))
    /\ oracle' = "returned"
    /\ fPc' = "parse"
    /\ UNCHANGED <<fSite, emails, apiKey, pendingCleans, attempt, lastError,
                   content, filteredEmails, notFilterVars>>

\* Both filters: the answer's content is parsed and the emails are filtered.
ParseResponse ==
    /\ fPc = "parse"
    /\ \E c \in Contents :
        /\ content' = c
        /\ filteredEmails' = ParseAndFilter(emails, c)
    /\ fPc' = "done"
    /\ UNCHANGED <<fSite, emails, apiKey, callLog, pendingCleans, attempt, lastError,
                   requests, oracle, notFilterVars>>

FilterNext ==
    \/ FilterEmpty
    \/ FilterStart
    \/ \E k \in 1..MaxEmails : CleanSettles(k)
    \/ KeyMissing
    \/ KeyFound
    \/ CallNetworkError
    \/ CallErrorStatus
    \/ CallBodyUnreadable
    \/ CallRateLimited
    \/ BackoffElapses
    \/ CallReturns
    \/ DebugNetworkError
    \/ DebugErrorStatus
    \/ DebugReturns
    \/ ParseResponse

InitFilter ==
    /\ FilterInit
    /\ SampleIdle
    /\ BoilerIdle
    /\ LinksIdle
    /\ OffscreenIdle
    /\ CleanIdle
    /\ DigestIdle
    /\ SummaryIdle
    /\ BatchIdle
    /\ CascadeIdle
    /\ EncodingIdle
    /\ AnchorsIdle
    /\ SelectionIdle
    /\ ReadabilityIdle

SpecFilter == InitFilter /\ [][FilterNext]_vars

Range(seq) == {seq[k] : k \in 1..Len(seq)}

\* C1: when the oracle call fails (no API key, a network error, a non-OK
\* status, the retries used up), both filters resolve to the input list
\* unchanged: same length, same order, same ids.
C1_FailOpen ==
    (fPc = "done" /\ oracle = "failed") => filteredEmails = emails

\* callOpenAI gave up after MAX_RETRIES rate-limited requests and the two
\* emails came back in their order.
C1_Witness ==
    /\ fPc = "done"
    /\ fSite = "filterRelevantEmails"
    /\ oracle = "failed"
    /\ lastError = "rateLimit"
    /\ requests = MAX_RETRIES
    /\ Len(emails) = 2
    /\ filteredEmails = emails

\* C2: on a well-formed decision list the filter returns exactly the input
\* emails whose id has a decision with include = true, in input order; an
\* email with no decision is left out.
C2_IncludedInOrder ==
    (fPc = "done" /\ oracle = "returned" /\ content.kind = "decisions") =>
        filteredEmails =
            SelectSeq(emails, LAMBDA id :
                \E k \in 1..Len(content.decisions) :
                    content.decisions[k].id = id /\ content.decisions[k].include)

\* Of two emails the second is included by its decision and the first has
\* no decision: only the second is returned.
C2_Witness ==
    /\ fPc = "done"
    /\ oracle = "returned"
    /\ content.kind = "decisions"
    /\ Len(emails) = 2
    /\ emails[1] \notin {d.id : d \in Range(content.decisions)}
    /\ filteredEmails = <<emails[2]>>

\* C3: on a malformed answer (content that is no JSON, or JSON without an
\* emailDecisions array) the filter returns every input email.
C3_MalformedIncludesAll ==
    (fPc = "done" /\ oracle = "returned" /\ content.kind \in MalformedKinds) =>
        filteredEmails = emails

\* The decisions for an id, in list order.
DecisionsFor(id, decisions) == SelectSeq(decisions, LAMBDA d : d.id = id)

\* C4 as claimed: of several decisions for one id the last one decides
\* whether the email is included.
C4_LastDecisionWins ==
    (fPc = "done" /\ oracle = "returned" /\ content.kind = "decisions") =>
        \A id \in Range(emails) :
            LET ds == DecisionsFor(id, content.decisions)
            IN  Len(ds) >= 2 => (id \in Range(filteredEmails) <=> ds[Len(ds)].include)

\* C4, amended: of several decisions for one id any decision with include =
\* true includes the email, wherever it stands in the list.
C4_AnyIncludeWins ==
    (fPc = "done" /\ oracle = "returned" /\ content.kind = "decisions") =>
        \A id \in Range(emails) :
            LET ds == DecisionsFor(id, content.decisions)
            IN  Len(ds) >= 2 =>
                    (id \in Range(filteredEmails) <=> \E k \in 1..Len(ds) : ds[k].include)

\* An email decided twice, included first and excluded last, is returned.
C4_Witness ==
    /\ fPc = "done"
    /\ oracle = "returned"
    /\ content.kind = "decisions"
    /\ Len(content.decisions) = 2
    /\ content.decisions[1].id = content.decisions[2].id
    /\ content.decisions[1].include
    /\ ~content.decisions[2].include
    /\ content.decisions[1].id \in Range(filteredEmails)

\* The positions of callLog that hold a request.
RequestPositions == {k \in 1..Len(callLog) : callLog[k].event # "delay"}

\* The position of the last request of callLog.
LastRequest == CHOOSE k \in RequestPositions : \A j \in RequestPositions : j <= k

\* The loop counter i of the request at position k of callLog.
AttemptIndex(k) == Cardinality({j \in RequestPositions : j < k})

\* C19: a non-OK status other than 429 makes callOpenAI fail fast: the
\* request that got it is the last one, callOpenAI throws, and
\* filterRelevantEmails returns the original list.
C19_NonRetriableFailsFast ==
    fSite = "filterRelevantEmails" =>
        \A k \in 1..Len(callLog) :
            callLog[k].event = "status" =>
                /\ k = Len(callLog)
                /\ fPc = "done"
                /\ oracle = "failed"
                /\ filteredEmails = emails

\* C20: callOpenAI sends at most MAX_RETRIES requests, sends none after an
\* OK response, waits RETRY_DELAY * 2^i between a failed attempt i (429 or
\* network failure) and the retry that follows it, and at the cap throws
\* the last error, on which filterRelevantEmails returns the original list.
C20_BackoffBeforeEveryRetry ==
    fSite = "filterRelevantEmails" =>
        /\ Cardinality(RequestPositions) <= MAX_RETRIES
        /\ \A k \in RequestPositions :
              callLog[k].event = "ok" => k = Len(callLog)
        /\ \A k \in RequestPositions :
              (callLog[k].event \in {"rateLimit", "network"}
                    /\ \E j \in RequestPositions : j > k)
                  => callLog[k + 1] = Waited(RETRY_DELAY * 2^AttemptIndex(k))
        /\ (attempt = MAX_RETRIES) =>
              (fPc = "done" /\ oracle = "failed" /\ filteredEmails = emails
                  /\ lastError = callLog[LastRequest].event)

\* C23: filterRelevantEmails sends a request to the oracle only after the
\* cleanEmailContent call of every email of the batch has settled, and the
\* batch goes out in one callOpenAI call: at most MAX_RETRIES requests and
\* at most one answered one, however many emails the batch holds.
C23_OracleAfterAllCleaned ==
    fSite = "filterRelevantEmails" =>
        /\ (fPc \in {"key", "fetch", "backoff", "parse"} \/ requests > 0)
                => pendingCleans = {}
        /\ requests = Cardinality(RequestPositions)
        /\ requests <= MAX_RETRIES
        /\ Cardinality({k \in RequestPositions : callLog[k].event = "ok"}) <= 1

\* A batch of two emails, both cleaned, answered by the first request.
C23_Witness ==
    /\ fSite = "filterRelevantEmails"
    /\ fPc = "done"
    /\ Len(emails) = 2
    /\ pendingCleans = {}
    /\ requests = 1
    /\ oracle = "returned"

InitSample ==
    /\ SampleInit
    /\ BoilerIdle
    /\ LinksIdle
    /\ FilterIdle
    /\ OffscreenIdle
    /\ CleanIdle
    /\ DigestIdle
    /\ SummaryIdle
    /\ BatchIdle
    /\ CascadeIdle
    /\ EncodingIdle
    /\ AnchorsIdle
    /\ SelectionIdle
    /\ ReadabilityIdle

SpecSample == InitSample /\ [][SampleNext]_vars

\* The number of sampled words of a snippet, the separator markers not counted.
SampledWordCount(s) == Cardinality({i \in 1..Len(s) : s[i] > 0})

\* C10: at every sampling call site, a word list within the budget is
\* returned whole (the words joined by single spaces), and a longer one is
\* sampled to at most the budget's number of words, markers not counted.
C10_LengthInvariant ==
    sPc = "done" =>
        /\ Len(words) <= BudgetAt(sSite) => snippet = words
        /\ Len(words) > BudgetAt(sSite) => SampledWordCount(snippet) <= BudgetAt(sSite)

C10_Witness ==
    /\ sPc = "done"
    /\ sSite = "filterEmailsWithDecisions"
    /\ Len(words) > ContentBudget
    /\ SampledWordCount(snippet) = ContentBudget

\* The word positions a snippet covers (the words of the model are their
\* positions in the input; the separator markers are not words).
Covered(s) == {s[i] : i \in {j \in 1..Len(s) : s[j] > 0}}

\* C11: for every input longer than the budget, at every sampling call site,
\* the positions covered by the three slices do not together form one
\* contiguous prefix of the input.
C11_NeverContiguousPrefix ==
    (sPc = "done" /\ Len(words) > BudgetAt(sSite)) =>
        Covered(snippet) # 1..Cardinality(Covered(snippet))

\* C12: of a 300-word body sampled with a budget of 100 the snippet holds a
\* word of the first 10% (positions 1-30) and a word of the last 20%
\* (positions 241-300), in filterRelevantEmails and in extractEmailSnippet.
C12_FirstAndLastRepresented ==
    (sPc = "done" /\ Len(words) = 300
            /\ sSite \in {"filterRelevantEmails", "extractEmailSnippet"}) =>
        /\ Covered(snippet) \cap (1..30) # {}
        /\ Covered(snippet) \cap (241..300) # {}

(***************************************************************************)
(* offscreenManager (openai-handler.js) and the generateDigest runs        *)
(* (digest-generator.js) the background listener starts, one per           *)
(* GENERATE_DIGEST message and with nothing that keeps two apart.          *)
(*                                                                         *)
(* A chrome.offscreen call is handled by the browser when it is made, and  *)
(* its reply reaches the script later, in the order of the calls; only the *)
(* reply to a createDocument that creates the document, which waits for    *)
(* the page to load, can be overtaken by the replies to later calls.       *)
(***************************************************************************)
MaxRuns == 2

Runs == 1..MaxRuns

NoPromise == 0

\* The exit paths of generateDigest.
Exits == {"digest", "noEmails", "noRelevant", "error"}

DocumentExists == offscreenDocument # "none"

\* The runs whose createDocument call has not been replied to.
CreateInFlight ==
    {r \in Runs : \E k \in 1..Len(replies) :
        replies[k].run = r /\ replies[k].api = "createDocument"}

\* chrome.offscreen.hasDocument(), called by run r
HasDocumentCall(r) ==
    [run |-> r, api |-> "hasDocument",
     answer |-> IF DocumentExists THEN "true" ELSE "false"]

Position(r) == CHOOSE k \in 1..Len(replies) : replies[k].run = r

Slow(reply) == reply.api = "createDocument" /\ reply.answer = "ok"

\* The reply to run r's call of api is the next to reach the script.
Arrives(r, api, answer) ==
    /\ \E k \in 1..Len(replies) : replies[k].run = r
    /\ replies[Position(r)].api = api
    /\ replies[Position(r)].answer = answer
    /\ \A j \in 1..(Position(r) - 1) : Slow(replies[j])

Without(r) == SelectSeq(replies, LAMBDA reply : reply.run # r)

\* return { success: true, ... } / return { success: false, ... }
Resolution(e) == IF e = "error" THEN "failure" ELSE "success"

OffscreenInit ==
    /\ runPc = [r \in Runs |-> "idle"]
    /\ exit = [r \in Runs |-> "none"]
    /\ result = [r \in Runs |-> "none"]
    /\ closeCalled = [r \in Runs |-> FALSE]
    /\ isCreating = FALSE
    /\ setupPromise = NoPromise
    /\ promiseState = [r \in Runs |-> "none"]
    /\ awaiting = [r \in Runs |-> NoPromise]
    /\ offscreenDocument = "none"
    /\ replies = << >>
    /\ arrivedDuring = [r \in Runs |-> {}]
    /\ setupSaw = [r \in Runs |-> "unresolved"]
    /\ sendResponses = [m \in 0..MaxRuns |-> << >>]
    /\ otherMessages = 0

\* A GENERATE_DIGEST message: generateDigest calls offscreenManager.setup(),
\* which asks chrome.offscreen.hasDocument().
DigestRequested(r) ==
    /\ runPc[r] = "idle"
    /\ runPc' = [runPc EXCEPT ![r] = "setupCheck"]
    /\ replies' = Append(replies, HasDocumentCall(r))
    /\ arrivedDuring' = [arrivedDuring EXCEPT ![r] = CreateInFlight]
    /\ UNCHANGED <<exit, result, closeCalled, isCreating, setupPromise,
                   promiseState, awaiting, offscreenDocument, setupSaw, listenerVars, notOffVars>>

\* setup: if (await chrome.offscreen.hasDocument()) return;
SetupFindsDocument(r) ==
    /\ runPc[r] = "setupCheck"
    /\ Arrives(r, "hasDocument", "true")
    /\ replies' = Without(r)
    /\ runPc' = [runPc EXCEPT ![r] = "pipeline"]
    /\ setupSaw' = [setupSaw EXCEPT ![r] = offscreenDocument]
    /\ UNCHANGED <<exit, result, closeCalled, isCreating, setupPromise,
                   promiseState, awaiting, offscreenDocument, arrivedDuring,
                   listenerVars,
                   notOffVars>>

\* setup: if (isCreating && setupPromise) return setupPromise;
SetupJoins(r) ==
    /\ runPc[r] = "setupCheck"
    /\ Arrives(r, "hasDocument", "false")
    /\ isCreating /\ setupPromise # NoPromise
    /\ replies' = Without(r)
    /\ awaiting' = [awaiting EXCEPT ![r] = setupPromise]
    /\ runPc' = [runPc EXCEPT ![r] = "awaitSetup"]
    /\ UNCHANGED <<exit, result, closeCalled, isCreating, setupPromise,
                   promiseState, offscreenDocument, arrivedDuring, setupSaw, listenerVars,
                   notOffVars>>

\* setup: isCreating = true; setupPromise = new Promise(...), whose executor
\* calls chrome.offscreen.createDocument at once.  The browser creates the
\* document, refuses to, or answers that the extension already has one.
SetupCreates(r) ==
    /\ runPc[r] = "setupCheck"
    /\ Arrives(r, "hasDocument", "false")
    /\ ~(isCreating /\ setupPromise # NoPromise)
    /\ isCreating' = TRUE
    /\ setupPromise' = r
    /\ promiseState' = [promiseState EXCEPT ![r] = "pending"]
    /\ awaiting' = [awaiting EXCEPT ![r] = r]
    /\ \E answer \in (IF DocumentExists THEN {"exists"} ELSE {"ok", "refused"}) :
        /\ replies' = Append(Without(r),
                [run |-> r, api |-> "createDocument", answer |-> answer])
        /\ offscreenDocument' =
                IF answer = "ok" THEN "loading" ELSE offscreenDocument
    /\ runPc' = [runPc EXCEPT ![r] = "creating"]
    /\ UNCHANGED <<exit, result, closeCalled, arrivedDuring, setupSaw, listenerVars,
                   notOffVars>>

\* The promise of setup settles; finally { isCreating = false;
\* setupPromise = null; }
SettleSetup(r, state) ==
    /\ promiseState' = [promiseState EXCEPT ![r] = state]
    /\ isCreating' = FALSE
    /\ setupPromise' = NoPromise

\* generateDigest leaves its try or catch block by exit path e and enters
\* finally: offscreenManager.close() asks chrome.offscreen.hasDocument().
FinallyClose(r, e, queue) ==
    /\ exit' = [exit EXCEPT ![r] = e]
    /\ closeCalled' = [closeCalled EXCEPT ![r] = TRUE]
    /\ replies' = Append(queue, HasDocumentCall(r))
    /\ runPc' = [runPc EXCEPT ![r] = "closeCheck"]

\* createDocument resolves: const success = await this.waitForReady();
CreateSucceeds(r) ==
    /\ runPc[r] = "creating"
    /\ Arrives(r, "createDocument", "ok")
    /\ replies' = Without(r)
    /\ runPc' = [runPc EXCEPT ![r] = "waiting"]
    /\ UNCHANGED <<exit, result, closeCalled, isCreating, setupPromise,
                   promiseState, awaiting, offscreenDocument, arrivedDuring,
                   setupSaw, listenerVars, notOffVars>>

\* createDocument rejects: catch (error) { reject(error); }, and the run's
\* await offscreenManager.setup() throws into the catch block of generateDigest
CreateFails(r) ==
    /\ runPc[r] = "creating"
    /\ Arrives(r, "createDocument", "refused") \/ Arrives(r, "createDocument", "exists")
    /\ SettleSetup(r, "rejected")
    /\ FinallyClose(r, "error", Without(r))
    /\ UNCHANGED <<result, awaiting, offscreenDocument, arrivedDuring, setupSaw, listenerVars,
                   notOffVars>>

\* The offscreen page has loaded and its script answers pings.
DocumentLoads ==
    /\ offscreenDocument = "loading"
    /\ offscreenDocument' = "listening"
    /\ UNCHANGED <<runPc, exit, result, closeCalled, isCreating, setupPromise,
                   promiseState, awaiting, replies, arrivedDuring, setupSaw, listenerVars,
                   notOffVars>>

\* waitForReady: a ping is answered with pong: resolve(true), resolve()
Pong(r) ==
    /\ runPc[r] = "waiting"
    /\ offscreenDocument = "listening"
    /\ SettleSetup(r, "resolved")
    /\ runPc' = [runPc EXCEPT ![r] = "pipeline"]
    /\ setupSaw' = [q \in Runs |->
            IF q = r \/ (runPc[q] = "awaitSetup" /\ awaiting[q] = r)
            THEN offscreenDocument ELSE setupSaw[q]]
    /\ UNCHANGED <<exit, result, closeCalled, awaiting, offscreenDocument,
                   replies, arrivedDuring, listenerVars, notOffVars>>

\* waitForReady: PING_TIMEOUT elapses: resolve(false),
\* reject(new Error("Offscreen document timed out."))
PingTimeout(r) ==
    /\ runPc[r] = "waiting"
    /\ SettleSetup(r, "rejected")
    /\ FinallyClose(r, "error", replies)
    /\ UNCHANGED <<result, awaiting, offscreenDocument, arrivedDuring, setupSaw, listenerVars,
                   notOffVars>>

\* A run that was handed another run's setupPromise goes on when it resolves.
JoinedSetupResolves(r) ==
    /\ runPc[r] = "awaitSetup"
    /\ promiseState[awaiting[r]] = "resolved"
    /\ runPc' = [runPc EXCEPT ![r] = "pipeline"]
    /\ UNCHANGED <<exit, result, closeCalled, isCreating, setupPromise,
                   promiseState, awaiting, offscreenDocument, replies,
                   arrivedDuring, setupSaw, listenerVars, notOffVars>>

JoinedSetupRejects(r) ==
    /\ runPc[r] = "awaitSetup"
    /\ promiseState[awaiting[r]] = "rejected"
    /\ FinallyClose(r, "error", replies)
    /\ UNCHANGED <<result, isCreating, setupPromise, promiseState, awaiting,
                   offscreenDocument, arrivedDuring, setupSaw, listenerVars, notOffVars>>

\* generateDigest, lines 24-50: the batch ends with a digest, with no email
\* fetched, with no relevant email, or with an error thrown on the way.
PipelineEnds(r) ==
    /\ runPc[r] = "pipeline"
    /\ \E e \in Exits : FinallyClose(r, e, replies)
    /\ UNCHANGED <<result, isCreating, setupPromise, promiseState, awaiting,
                   offscreenDocument, arrivedDuring, setupSaw, listenerVars, notOffVars>>

\* close: hasDocument() answered false; generateDigest resolves
CloseSkips(r) ==
    /\ runPc[r] = "closeCheck"
    /\ Arrives(r, "hasDocument", "false")
    /\ replies' = Without(r)
    /\ result' = [result EXCEPT ![r] = Resolution(exit[r])]
    /\ runPc' = [runPc EXCEPT ![r] = "done"]
    /\ UNCHANGED <<exit, closeCalled, isCreating, setupPromise, promiseState,
                   awaiting, offscreenDocument, arrivedDuring, setupSaw, listenerVars, notOffVars>>

\* close: hasDocument() answered true: await chrome.offscreen.closeDocument().
\* The browser closes the document, or answers that there is none.
CloseIssues(r) ==
    /\ runPc[r] = "closeCheck"
    /\ Arrives(r, "hasDocument", "true")
    /\ replies' = Append(Without(r),
            [run |-> r, api |-> "closeDocument",
             answer |-> IF DocumentExists THEN "ok" ELSE "none"])
    /\ offscreenDocument' = "none"
    /\ runPc' = [runPc EXCEPT ![r] = "closing"]
    /\ UNCHANGED <<exit, result, closeCalled, isCreating, setupPromise,
                   promiseState, awaiting, arrivedDuring, setupSaw, listenerVars, notOffVars>>

\* closeDocument resolves; generateDigest resolves
CloseSucceeds(r) ==
    /\ runPc[r] = "closing"
    /\ Arrives(r, "closeDocument", "ok")
    /\ replies' = Without(r)
    /\ result' = [result EXCEPT ![r] = Resolution(exit[r])]
    /\ runPc' = [runPc EXCEPT ![r] = "done"]
    /\ UNCHANGED <<exit, closeCalled, isCreating, setupPromise, promiseState,
                   awaiting, offscreenDocument, arrivedDuring, setupSaw, listenerVars, notOffVars>>

\* closeDocument rejects: the await in the finally block throws and the
\* promise of generateDigest rejects
CloseFails(r) ==
    /\ runPc[r] = "closing"
    /\ Arrives(r, "closeDocument", "none")
    /\ replies' = Without(r)
    /\ result' = [result EXCEPT ![r] = "rejected"]
    /\ runPc' = [runPc EXCEPT ![r] = "done"]
    /\ UNCHANGED <<exit, closeCalled, isCreating, setupPromise, promiseState,
                   awaiting, offscreenDocument, arrivedDuring, setupSaw, listenerVars, notOffVars>>

MaxOther == 1

\* background.js 14-22: .then(result => sendResponse(result)) without the
\* .catch(...) after it
ThenOnly(settlement) ==
    IF settlement = "rejected" THEN << >>
    ELSE <<[handler |-> "then", success |-> settlement = "success"]>>

\* background.js 14-22: generateDigest(period).then(result =>
\* sendResponse(result)).catch(error => sendResponse({ success: false,
\* error: error.message }))
Reaction(settlement) ==
    IF settlement = "rejected"
    THEN <<[handler |-> "catch", success |-> FALSE]>>
    ELSE <<[handler |-> "then", success |-> settlement = "success"]>>

\* The promise of generateDigest has settled and its reaction runs.
ListenerResponds(r) ==
    /\ runPc[r] = "done"
    /\ sendResponses[r] = << >>
    /\ sendResponses' = [sendResponses EXCEPT ![r] = @ \o Reaction(result[r])]
    /\ UNCHANGED <<runPc, exit, result, closeCalled, isCreating, setupPromise,
                   promiseState, awaiting, offscreenDocument, replies,
                   arrivedDuring, setupSaw, otherMessages, notOffVars>>

\* background.js 4-27: a message of another type: no branch of the listener
\* takes it and the listener returns undefined.  Message 0 stands for
\* these messages.
OtherMessage ==
    /\ otherMessages < MaxOther
    /\ otherMessages' = otherMessages + 1
    /\ UNCHANGED <<runPc, exit, result, closeCalled, isCreating, setupPromise,
                   promiseState, awaiting, offscreenDocument, replies,
                   arrivedDuring, setupSaw, sendResponses, notOffVars>>

OffscreenNext ==
    \/ \E r \in Runs : DigestRequested(r)
    \/ \E r \in Runs : SetupFindsDocument(r)
    \/ \E r \in Runs : SetupJoins(r)
    \/ \E r \in Runs : SetupCreates(r)
    \/ \E r \in Runs : CreateSucceeds(r)
    \/ \E r \in Runs : CreateFails(r)
    \/ DocumentLoads
    \/ \E r \in Runs : Pong(r)
    \/ \E r \in Runs : PingTimeout(r)
    \/ \E r \in Runs : JoinedSetupResolves(r)
    \/ \E r \in Runs : JoinedSetupRejects(r)
    \/ \E r \in Runs : PipelineEnds(r)
    \/ \E r \in Runs : CloseSkips(r)
    \/ \E r \in Runs : CloseIssues(r)
    \/ \E r \in Runs : CloseSucceeds(r)
    \/ \E r \in Runs : CloseFails(r)
    \/ \E r \in Runs : ListenerResponds(r)
    \/ OtherMessage

InitOffscreen ==
    /\ OffscreenInit
    /\ SampleIdle
    /\ BoilerIdle
    /\ LinksIdle
    /\ FilterIdle
    /\ CleanIdle
    /\ DigestIdle
    /\ SummaryIdle
    /\ BatchIdle
    /\ CascadeIdle
    /\ EncodingIdle
    /\ AnchorsIdle
    /\ SelectionIdle
    /\ ReadabilityIdle

SpecOffscreen == InitOffscreen /\ [][OffscreenNext]_vars

\* Every call of an external collaborator settles, the timer of
\* waitForReady fires unless a pong came first, and a promise reaction
\* that is due runs.  Nothing makes a message arrive.
ListenerFairness ==
    \A r \in Runs :
        /\ WF_vars(SetupFindsDocument(r))
        /\ WF_vars(SetupJoins(r))
        /\ WF_vars(SetupCreates(r))
        /\ WF_vars(CreateSucceeds(r))
        /\ WF_vars(CreateFails(r))
        /\ WF_vars(Pong(r) \/ PingTimeout(r))
        /\ WF_vars(JoinedSetupResolves(r))
        /\ WF_vars(JoinedSetupRejects(r))
        /\ WF_vars(PipelineEnds(r))
        /\ WF_vars(CloseSkips(r))
        /\ WF_vars(CloseIssues(r))
        /\ WF_vars(CloseSucceeds(r))
        /\ WF_vars(CloseFails(r))
        /\ WF_vars(ListenerResponds(r))

SpecListener == InitOffscreen /\ [][OffscreenNext]_vars /\ ListenerFairness

\* Only one createDocument call is ever in flight, and none is made while
\* the document exists.
OneCreationInFlight ==
    /\ Cardinality(CreateInFlight) <= 1
    /\ \A k \in 1..Len(replies) : replies[k].answer # "exists"

\* C5: for any interleaving of concurrent setup() callers at most one
\* createDocument call is in flight, createDocument is never invoked while a
\* creation is in flight or a document exists, and a caller that arrives
\* during an in-flight creation awaits that same creation.
C5_SingleSharedCreation ==
    /\ Cardinality(CreateInFlight) <= 1
    /\ \A k \in 1..Len(replies) : replies[k].answer # "exists"
    /\ \A r \in Runs :
        (arrivedDuring[r] # {} /\ runPc[r] \notin {"idle", "setupCheck"}) =>
            awaiting[r] \in arrivedDuring[r]

\* C6: on every exit path of generateDigest offscreenManager.close() is
\* invoked after the batch, a document that is already closed is no error,
\* and generateDigest resolves to its {success, ...} result.
C6_CloseAlwaysTolerated ==
    \A r \in Runs :
        runPc[r] = "done" =>
            /\ closeCalled[r]
            /\ result[r] = Resolution(exit[r])

\* C21: setup() resolves only when the document has loaded and answers
\* pings, for every caller, also for one that calls setup() while another
\* caller's creation has created the document and waits for the first pong;
\* and a creating call whose waitForReady timed out has rejected.
C21_ResolvesOnlyWhenReady ==
    \A r \in Runs :
        /\ setupSaw[r] \in {"unresolved", "listening"}
        /\ (runPc[r] = "pipeline") => setupSaw[r] = "listening"
        /\ (promiseState[r] = "rejected") => exit[r] = "error"

\* C22: the document is never closed while a run that set it up is still
\* using it: while a run whose setup() resolved on a ready document is in
\* its pipeline, with requests to the document still to send, no other
\* run's finally-close has torn the document down.
C22_NoTeardownUnderAnotherRun ==
    \A r \in Runs :
        (runPc[r] = "pipeline" /\ setupSaw[r] = "listening")
            => offscreenDocument # "none"

(***************************************************************************)
(* cleanEmailContent (openai-handler.js) and its counterpart in the        *)
(* offscreen document (scheduler.js).                                      *)
(*                                                                         *)
(* A body is a sequence of pieces: bare text, or an element holding text.  *)
(* Every piece holds one word; "garbled" stands for a word with a          *)
(* mis-decoded UTF-8 sequence, which fixCharacterEncoding repairs.         *)
(***************************************************************************)
MaxBodyLen == 2

Elements == {"text", "p", "a", "style"}

BodyWords == {"news", "garbled"}

Pieces == [el : Elements, word : BodyWords]

RECURSIVE BodiesOfLength(_)
BodiesOfLength(n) ==
    IF n = 0 THEN {<< >>}
    ELSE {Append(b, piece) : b \in BodiesOfLength(n - 1), piece \in Pieces}

Bodies == UNION {BodiesOfLength(n) : n \in 0..MaxBodyLen}

\* htmlString.replace(/<[^>]*>/g, ' ').replace(/\s+/g, ' ').trim(): the tags
\* go, the text of every element stays, that of a style element included.
StripTags(body) == [k \in 1..Len(body) |-> body[k].word]

\* fixCharacterEncoding
FixWord(w) == IF w = "garbled" THEN "repaired" ELSE w

fixCharacterEncoding(txt) == [k \in 1..Len(txt) |-> FixWord(txt[k])]

\* [...new Set(links)]
RECURSIVE Unique(_)
Unique(seq) ==
    IF seq = << >> THEN << >>
    ELSE LET front == Unique(SubSeq(seq, 1, Len(seq) - 1))
             last  == seq[Len(seq)]
         IN  IF \E k \in 1..Len(front) : front[k] = last
             THEN front ELSE Append(front, last)

\* The offscreen cleanEmailContent on a document that parsed: the unwanted
\* elements (style, script, ...) are removed, the text of the rest is
\* extracted and repaired, and the hrefs of the anchors are collected.
DomText(body) ==
    fixCharacterEncoding(StripTags(SelectSeq(body, LAMBDA piece : piece.el # "style")))

DomLinks(body) ==
    Unique(StripTags(SelectSeq(body, LAMBDA piece : piece.el = "a")))

Record(txt, hrefs) == [is |-> "record", text |-> txt, links |-> hrefs]

\* What chrome.runtime.sendMessage resolves with when no listener answered.
Undefined == [is |-> "undefined", text |-> << >>, links |-> << >>]

CleanInit ==
    /\ cPc = "start"
    /\ htmlString \in Bodies
    /\ exchange = "none"
    /\ cleaned = NothingCleaned

\* if (!htmlString) return { text: '', links: [] };
CleanEmptyBody ==
    /\ cPc = "start"
    /\ htmlString = << >>
    /\ cleaned' = Record(<< >>, << >>)
    /\ cPc' = "done"
    /\ UNCHANGED <<htmlString, exchange, notCleanVars>>

\* await chrome.runtime.sendMessage({ type: 'clean-html', ... })
CleanSends ==
    /\ cPc = "start"
    /\ htmlString # << >>
    /\ cPc' = "sent"
    /\ UNCHANGED <<htmlString, exchange, cleaned, notCleanVars>>

\* The offscreen document answers with what it extracted from the DOM.
OffscreenAnswers ==
    /\ cPc = "sent"
    /\ exchange' = "answered"
    /\ cleaned' = Record(DomText(htmlString), DomLinks(htmlString))
    /\ cPc' = "done"
    /\ UNCHANGED <<htmlString, notCleanVars>>

\* The extraction in the offscreen document throws: its catch block answers
\* with the tag-stripped string, repaired, and no links.
OffscreenDegrades ==
    /\ cPc = "sent"
    /\ exchange' = "parseError"
    /\ cleaned' = Record(fixCharacterEncoding(StripTags(htmlString)), << >>)
    /\ cPc' = "done"
    /\ UNCHANGED <<htmlString, notCleanVars>>

\* sendMessage rejects (no receiving end, the document closed meanwhile):
\* the catch block of cleanEmailContent returns the tag-stripped string.
ExchangeRejects ==
    /\ cPc = "sent"
    /\ exchange' = "rejected"
    /\ cleaned' = Record(StripTags(htmlString), << >>)
    /\ cPc' = "done"
    /\ UNCHANGED <<htmlString, notCleanVars>>

\* The message reached a listener that sends no response (the background
\* listener returns without one for every type other than GENERATE_DIGEST)
\* and no offscreen document answered: sendMessage resolves with undefined,
\* and cleanEmailContent returns what it awaited.
ExchangeUnanswered ==
    /\ cPc = "sent"
    /\ exchange' = "noResponse"
    /\ cleaned' = Undefined
    /\ cPc' = "done"
    /\ UNCHANGED <<htmlString, notCleanVars>>

CleanNext ==
    \/ CleanEmptyBody
    \/ CleanSends
    \/ OffscreenAnswers
    \/ OffscreenDegrades
    \/ ExchangeRejects
    \/ ExchangeUnanswered

InitClean ==
    /\ CleanInit
    /\ SampleIdle
    /\ BoilerIdle
    /\ LinksIdle
    /\ FilterIdle
    /\ OffscreenIdle
    /\ DigestIdle
    /\ SummaryIdle
    /\ BatchIdle
    /\ CascadeIdle
    /\ EncodingIdle
    /\ AnchorsIdle
    /\ SelectionIdle
    /\ ReadabilityIdle

SpecClean == InitClean /\ [][CleanNext]_vars

\* C13: cleanEmailContent always resolves to a {text, links} record: the
\* empty record for an empty body, and the tag-stripped, whitespace-collapsed
\* raw string with no links when the exchange fails or the DOM extraction
\* throws; the caller never receives a value without a text field.
C13_AlwaysARecord ==
    cPc = "done" =>
        /\ cleaned.is = "record"
        /\ htmlString = << >> => cleaned = Record(<< >>, << >>)
        /\ exchange \in {"rejected", "parseError"} =>
                cleaned = Record(StripTags(htmlString), << >>)

(***************************************************************************)
(* One generateDigest run (digest-generator.js) over the mailbox           *)
(* (gmail-api.js): the message list, one detail request per message, the   *)
(* relevance filter, the summarizer, and the closing of the offscreen      *)
(* document, which no other run shares here.                               *)
(***************************************************************************)
MaxMessages == 4

\* Promise.all over the detail requests: a mutant that waits for all to
\* settle and resolves, and the promise as it is: it resolves when all are
\* fulfilled and rejects with the first rejection.
AllSettled(requests_) == \A k \in 1..Len(requests_) : requests_[k] # "pending"

PromiseAllResolves(requests_) == \A k \in 1..Len(requests_) : requests_[k] = "ok"

PromiseAllRejects(requests_) == \E k \in 1..Len(requests_) : requests_[k] = "failed"

DigestInit ==
    /\ dPc = "setup"
    /\ listed = "pending"
    /\ details = << >>
    /\ oracleCalled = FALSE
    /\ summarizerCalled = FALSE
    /\ outcome = "none"

\* catch (error) { return { success: false, error: error.message }; }
DigestCatches ==
    /\ outcome' = "failure"
    /\ dPc' = "closing"

\* await offscreenManager.setup() resolves; fetchNewsletterEmails starts
DigestSetupResolves ==
    /\ dPc = "setup"
    /\ dPc' = "listing"
    /\ UNCHANGED <<listed, details, oracleCalled, summarizerCalled, outcome,
                   notDigestVars>>

DigestSetupRejects ==
    /\ dPc = "setup"
    /\ DigestCatches
    /\ UNCHANGED <<listed, details, oracleCalled, summarizerCalled, notDigestVars>>

\* fetchNewsletterEmails: no token, fetch rejects, !response.ok, or the body
\* is unreadable: throw new Error('Failed to fetch emails')
ListFails ==
    /\ dPc = "listing"
    /\ listed' = "failed"
    /\ DigestCatches
    /\ UNCHANGED <<details, oracleCalled, summarizerCalled, notDigestVars>>

\* fetchNewsletterEmails returns []; generateDigest: allEmails.length === 0
ListEmpty ==
    /\ dPc = "listing"
    /\ listed' = "empty"
    /\ outcome' = "noEmails"
    /\ dPc' = "closing"
    /\ UNCHANGED <<details, oracleCalled, summarizerCalled, notDigestVars>>

\* data.messages.slice(0, 50).map(message => fetchEmailDetails(...))
ListReturns ==
    /\ dPc = "listing"
    /\ listed' = "ok"
    /\ \E n \in 1..MaxMessages : details' = [k \in 1..n |-> "pending"]
    /\ dPc' = "details"
    /\ UNCHANGED <<oracleCalled, summarizerCalled, outcome, notDigestVars>>

\* One detail request settles.  While generateDigest awaits the emails,
\* Promise.all resolves (filterRelevantEmails is invoked) or rejects (the
\* catch blocks of fetchNewsletterEmails and generateDigest); a request that
\* settles after the rejection changes nothing.
DetailSettles(k, how) ==
    /\ details[k] = "pending"
    /\ details' = [details EXCEPT ![k] = how]
    /\ IF dPc = "details" /\ PromiseAllResolves(details')
       THEN /\ oracleCalled' = TRUE
            /\ dPc' = "filter"
            /\ UNCHANGED outcome
       ELSE IF dPc = "details" /\ PromiseAllRejects(details')
       THEN /\ DigestCatches
            /\ UNCHANGED oracleCalled
       ELSE UNCHANGED <<dPc, oracleCalled, outcome>>
    /\ UNCHANGED <<listed, summarizerCalled, notDigestVars>>

\* fetchEmailDetails returns processEmailData(data)
DetailArrives(k) ==
    /\ k \in 1..Len(details)
    /\ DetailSettles(k, "ok")

\* fetchEmailDetails: fetch rejects, !response.ok, or the data cannot be
\* processed: throw error
DetailFails(k) ==
    /\ k \in 1..Len(details)
    /\ DetailSettles(k, "failed")

\* relevantEmails.length === 0
FilterKeepsNone ==
    /\ dPc = "filter"
    /\ outcome' = "noRelevant"
    /\ dPc' = "closing"
    /\ UNCHANGED <<listed, details, oracleCalled, summarizerCalled, notDigestVars>>

\* generateSummaryFromEmails(relevantEmails, preferences) is invoked
FilterKeepsSome ==
    /\ dPc = "filter"
    /\ summarizerCalled' = TRUE
    /\ dPc' = "summarize"
    /\ UNCHANGED <<listed, details, oracleCalled, outcome, notDigestVars>>

\* filterRelevantEmails throws before its try block (a cleaned content
\* without a text field)
FilterThrows ==
    /\ dPc = "filter"
    /\ DigestCatches
    /\ UNCHANGED <<listed, details, oracleCalled, summarizerCalled, notDigestVars>>

\* return { success: true, digest: summary }
SummaryReturns ==
    /\ dPc = "summarize"
    /\ outcome' = "digest"
    /\ dPc' = "closing"
    /\ UNCHANGED <<listed, details, oracleCalled, summarizerCalled, notDigestVars>>

\* generateSummaryFromEmails: throw new Error('Failed to process and
\* summarize emails: ...')
SummaryThrows ==
    /\ dPc = "summarize"
    /\ DigestCatches
    /\ UNCHANGED <<listed, details, oracleCalled, summarizerCalled, notDigestVars>>

\* finally { await offscreenManager.close(); }: the promise settles
DigestCloses ==
    /\ dPc = "closing"
    /\ dPc' = "done"
    /\ UNCHANGED <<listed, details, oracleCalled, summarizerCalled, outcome,
                   notDigestVars>>

DigestNext ==
    \/ DigestSetupResolves
    \/ DigestSetupRejects
    \/ ListFails
    \/ ListEmpty
    \/ ListReturns
    \/ \E k \in 1..MaxMessages : DetailArrives(k)
    \/ \E k \in 1..MaxMessages : DetailFails(k)
    \/ FilterKeepsNone
    \/ FilterKeepsSome
    \/ FilterThrows
    \/ SummaryReturns
    \/ SummaryThrows
    \/ DigestCloses

InitDigest ==
    /\ DigestInit
    /\ SampleIdle
    /\ BoilerIdle
    /\ LinksIdle
    /\ FilterIdle
    /\ OffscreenIdle
    /\ CleanIdle
    /\ SummaryIdle
    /\ BatchIdle
    /\ CascadeIdle
    /\ EncodingIdle
    /\ AnchorsIdle
    /\ SelectionIdle
    /\ ReadabilityIdle

SpecDigest == InitDigest /\ [][DigestNext]_vars

MailboxFailed ==
    listed = "failed" \/ \E k \in 1..Len(details) : details[k] = "failed"

RetryAllowedOnceMore(count) == count <= MAX_RETRIES

\* if (retryCount < MAX_RETRIES)
RetryAllowed(count) == count < MAX_RETRIES

\* Math.pow(2, retryCount) * RETRY_DELAY
SummaryDelay(count) == (2 ^ count) * RETRY_DELAY

SummaryInit ==
    /\ mPc = "start"
    /\ aggregated \in BOOLEAN
    /\ keyConfigured \in BOOLEAN
    /\ retryCount = 0
    /\ attempts = 0
    /\ summaryErrors = << >>
    /\ delays = << >>
    /\ summary = "none"

\* if (!aggregatedContent) return "There was no content to summarize.";
SummarizeNoContent ==
    /\ mPc = "start"
    /\ ~aggregated
    /\ summary' = "noContent"
    /\ mPc' = "done"
    /\ UNCHANGED <<aggregated, keyConfigured, retryCount, attempts,
                   summaryErrors, delays, notSummaryVars>>

SummarizeStarts ==
    /\ mPc = "start"
    /\ aggregated
    /\ mPc' = "attempt"
    /\ UNCHANGED <<aggregated, keyConfigured, retryCount, attempts,
                   summaryErrors, delays, summary, notSummaryVars>>

\* The catch block: a retry after the delay, or the error string.
SummaryAttemptFails(error) ==
    /\ attempts' = attempts + 1
    /\ summaryErrors' = Append(summaryErrors, error)
    /\ IF RetryAllowed(retryCount)
       THEN /\ delays' = Append(delays, SummaryDelay(retryCount))
            /\ mPc' = "delay"
            /\ UNCHANGED summary
       ELSE /\ summary' = "errorString"
            /\ mPc' = "done"
            /\ UNCHANGED delays

\* initializeOpenAI() throws
SummaryKeyMissing ==
    /\ mPc = "attempt"
    /\ ~keyConfigured
    /\ SummaryAttemptFails("key")
    /\ UNCHANGED <<aggregated, keyConfigured, retryCount, notSummaryVars>>

\* fetch rejects
SummaryNetworkError ==
    /\ mPc = "attempt"
    /\ keyConfigured
    /\ SummaryAttemptFails("network")
    /\ UNCHANGED <<aggregated, keyConfigured, retryCount, notSummaryVars>>

\* if (!response.ok) throw new Error(`OpenAI API error: ...`)
SummaryErrorStatus ==
    /\ mPc = "attempt"
    /\ keyConfigured
    /\ SummaryAttemptFails("status")
    /\ UNCHANGED <<aggregated, keyConfigured, retryCount, notSummaryVars>>

\* response.json() rejects, or data.choices[0].message.content is missing
SummaryMalformed ==
    /\ mPc = "attempt"
    /\ keyConfigured
    /\ SummaryAttemptFails("malformed")
    /\ UNCHANGED <<aggregated, keyConfigured, retryCount, notSummaryVars>>

\* return summary;
SummarySucceeds ==
    /\ mPc = "attempt"
    /\ keyConfigured
    /\ attempts' = attempts + 1
    /\ summary' = "summary"
    /\ mPc' = "done"
    /\ UNCHANGED <<aggregated, keyConfigured, retryCount, summaryErrors, delays,
                   notSummaryVars>>

\* The timer fires: return summarizeAggregatedContent(..., retryCount + 1)
SummaryRetries ==
    /\ mPc = "delay"
    /\ retryCount' = retryCount + 1
    /\ mPc' = "attempt"
    /\ UNCHANGED <<aggregated, keyConfigured, attempts, summaryErrors, delays,
                   summary, notSummaryVars>>

SummaryNext ==
    \/ SummarizeNoContent
    \/ SummarizeStarts
    \/ SummaryKeyMissing
    \/ SummaryNetworkError
    \/ SummaryErrorStatus
    \/ SummaryMalformed
    \/ SummarySucceeds
    \/ SummaryRetries

InitSummary ==
    /\ SummaryInit
    /\ SampleIdle
    /\ BoilerIdle
    /\ LinksIdle
    /\ FilterIdle
    /\ OffscreenIdle
    /\ CleanIdle
    /\ DigestIdle
    /\ BatchIdle
    /\ CascadeIdle
    /\ EncodingIdle
    /\ AnchorsIdle
    /\ SelectionIdle
    /\ ReadabilityIdle

SpecSummary == InitSummary /\ [][SummaryNext]_vars

\* C15: summarizeAggregatedContent never rejects.  Every failed attempt, a
\* missing API key included, is retried after 2^retryCount * 1000 ms until
\* MAX_RETRIES retries are used; after exactly MAX_RETRIES + 1 failed
\* attempts it resolves to the 'Error: Could not generate digest' string;
\* it stops at the first attempt that succeeds.
C15_RetriesThenErrorString ==
    /\ attempts <= MAX_RETRIES + 1
    /\ delays = [k \in 1..Len(delays) |-> (2 ^ (k - 1)) * 1000]
    /\ mPc \in {"attempt", "delay"} =>
            /\ summary = "none"
            /\ Len(summaryErrors) = attempts
            /\ Len(delays) = attempts
            /\ retryCount = IF mPc = "delay" THEN attempts - 1 ELSE attempts
    /\ mPc = "done" =>
            /\ summary \in {"noContent", "summary", "errorString"}
            /\ summary = "errorString" =>
                    /\ attempts = MAX_RETRIES + 1
                    /\ Len(summaryErrors) = MAX_RETRIES + 1
                    /\ Len(delays) = MAX_RETRIES
            /\ summary = "summary" =>
                    /\ Len(summaryErrors) = attempts - 1
                    /\ Len(delays) = attempts - 1
            /\ summary = "noContent" => attempts = 0

\* Without an API key four attempts fail, 1000, 2000 and 4000 ms apart, and
\* the error string is returned.
C15_Witness ==
    /\ mPc = "done"
    /\ ~keyConfigured
    /\ summary = "errorString"
    /\ attempts = 4
    /\ delays = <<1000, 2000, 4000>>

(***************************************************************************)
(* The first half of filterRelevantEmails and of filterEmailsWithDecisions:*)
(* one cleanEmailContent call per email of the batch, all of them pending  *)
(* at once, Promise.all over them, and one snippet per email.  An email    *)
(* is its id, its subject and its body.                                    *)
(***************************************************************************)
MaxBatch == 2

Subjects == {<< >>, <<"weekly">>}

BatchBodies ==
    {<< >>, <<[el |-> "style", word |-> "garbled"]>>, <<[el |-> "p", word |-> "garbled"]>>,
     <<[el |-> "p", word |-> "unsubscribe"]>>}

RECURSIVE BatchesOfLength(_)
BatchesOfLength(n) ==
    IF n = 0 THEN {<< >>}
    ELSE {Append(b, [id |-> n, subject |-> sub, body |-> bod]) :
            b \in BatchesOfLength(n - 1), sub \in Subjects, bod \in BatchBodies}

Batches == UNION {BatchesOfLength(n) : n \in 0..MaxBatch}

\* What cleanEmailContent(body) resolves to, by the way its exchange with
\* the offscreen document ended.
CleanResult(how, body) ==
    CASE how = "empty"      -> Record(<< >>, << >>)
      [] how = "answered"   -> Record(DomText(body), DomLinks(body))
      [] how = "parseError" -> Record(fixCharacterEncoding(StripTags(body)), << >>)
      [] how = "rejected"   -> Record(StripTags(body), << >>)
      [] how = "noResponse" -> Undefined

\* Promise.all resolves to the values in the order of the promises, not in
\* the order in which they settled.
PromiseAll(settlements, n) ==
    [k \in 1..n |->
        LET at == CHOOSE j \in 1..Len(settlements) : settlements[j].index = k
        IN  settlements[at].value]

ShortWords == {"ok", "ai"}
ImportantShortWords == {"ai"}

\* extractMeaningfulWords: words of 3 characters or more, and the important
\* short words.
extractMeaningfulWords(t) ==
    SelectSeq(t, LAMBDA w : w \notin ShortWords \/ w \in ImportantShortWords)

\* email.subject || 'No Subject'
SubjectOf(email) ==
    IF email.subject = << >> THEN <<"No", "Subject">> ELSE email.subject

\* The callback of emails.map((email, index) => ...) of filterRelevantEmails.
HandlerEmailSnippet(email, cleanedContent) ==
    [id |-> email.id, snippet |-> HandlerSnippet(cleanedContent.text)]

\* The callback of emails.map((email, index) => ...) of filterEmailsWithDecisions.
DecisionsEmailSnippet(email, cleanedContent) ==
    LET t == removeBoilerplateText(cleanedContent.text)
    IN  IF t = << >>
        THEN [id |-> email.id,
              snippet |-> <<"Subject:">> \o SubjectOf(email)
                            \o <<"|", "Content:", "No meaningful content extracted">>]
        ELSE LET subjectWords == Slice(SubjectOf(email), 0, 10)
             IN  [id |-> email.id,
                  snippet |-> <<"Subject:">> \o subjectWords \o <<"|", "Content:">>
                                \o DecisionsContentSnippet(extractMeaningfulWords(t))]

EmailSnippetAt(site, email, cleanedContent) ==
    CASE site = "filterRelevantEmails"      -> HandlerEmailSnippet(email, cleanedContent)
      [] site = "filterEmailsWithDecisions" -> DecisionsEmailSnippet(email, cleanedContent)

\* The emails whose cleanEmailContent call has not settled.
Unsettled == (1..Len(batch)) \ {settled[j].index : j \in 1..Len(settled)}

BatchInit ==
    /\ batchPc = "start"
    /\ batchSite \in FilterSites
    /\ batch \in Batches
    /\ settled = << >>
    /\ cleanedContents = << >>
    /\ emailSnippets = << >>

\* if (!emails || emails.length === 0) return [];
BatchEmpty ==
    /\ batchPc = "start"
    /\ batch = << >>
    /\ batchPc' = "done"
    /\ UNCHANGED <<batchSite, batch, settled, cleanedContents, emailSnippets, notBatchVars>>

\* emails.map(email => cleanEmailContent(email.body)): every message is
\* sent before the first reply is looked at.
BatchStart ==
    /\ batchPc = "start"
    /\ batch # << >>
    /\ batchPc' = "cleaning"
    /\ UNCHANGED <<batchSite, batch, settled, cleanedContents, emailSnippets, notBatchVars>>

\* The cleanEmailContent call of email k settles.
BatchCleanSettles(k, how) ==
    /\ batchPc = "cleaning"
    /\ settled' = Append(settled, [index |-> k, how |-> how,
                                    value |-> CleanResult(how, batch[k].body)])
    /\ UNCHANGED <<batchPc, batchSite, batch, cleanedContents, emailSnippets, notBatchVars>>

BatchEmptyBody(k) ==
    /\ k \in Unsettled
    /\ batch[k].body = << >>
    /\ BatchCleanSettles(k, "empty")

BatchAnswered(k) ==
    /\ k \in Unsettled
    /\ batch[k].body # << >>
    /\ BatchCleanSettles(k, "answered")

BatchDegraded(k) ==
    /\ k \in Unsettled
    /\ batch[k].body # << >>
    /\ BatchCleanSettles(k, "parseError")

BatchRejected(k) ==
    /\ k \in Unsettled
    /\ batch[k].body # << >>
    /\ BatchCleanSettles(k, "rejected")

BatchUnanswered(k) ==
    /\ k \in Unsettled
    /\ batch[k].body # << >>
    /\ BatchCleanSettles(k, "noResponse")

\* Promise.all resolved and every value is a record: the snippets are built.
BatchSnippetsBuilt ==
    /\ batchPc = "cleaning"
    /\ Unsettled = {}
    /\ \A j \in 1..Len(settled) : settled[j].value.is = "record"
    /\ cleanedContents' = PromiseAll(settled, Len(batch))
    /\ emailSnippets' = [k \in 1..Len(batch) |->
                            EmailSnippetAt(batchSite, batch[k], cleanedContents'[k])]
    /\ batchPc' = "done"
    /\ UNCHANGED <<batchSite, batch, settled, notBatchVars>>

\* Promise.all resolved and one value is undefined: cleanedContents[index].text
\* throws a TypeError outside every try block, and the filter call rejects.
BatchSnippetsThrow ==
    /\ batchPc = "cleaning"
    /\ Unsettled = {}
    /\ \E j \in 1..Len(settled) : settled[j].value.is = "undefined"
    /\ cleanedContents' = PromiseAll(settled, Len(batch))
    /\ batchPc' = "threw"
    /\ UNCHANGED <<batchSite, batch, settled, emailSnippets, notBatchVars>>

BatchNext ==
    \/ BatchEmpty
    \/ BatchStart
    \/ \E k \in 1..MaxBatch : BatchEmptyBody(k)
    \/ \E k \in 1..MaxBatch : BatchAnswered(k)
    \/ \E k \in 1..MaxBatch : BatchDegraded(k)
    \/ \E k \in 1..MaxBatch : BatchRejected(k)
    \/ \E k \in 1..MaxBatch : BatchUnanswered(k)
    \/ BatchSnippetsBuilt
    \/ BatchSnippetsThrow

InitBatch ==
    /\ BatchInit
    /\ SampleIdle
    /\ BoilerIdle
    /\ LinksIdle
    /\ FilterIdle
    /\ OffscreenIdle
    /\ CleanIdle
    /\ DigestIdle
    /\ SummaryIdle
    /\ CascadeIdle
    /\ EncodingIdle
    /\ AnchorsIdle
    /\ SelectionIdle
    /\ ReadabilityIdle

SpecBatch == InitBatch /\ [][BatchNext]_vars

\* How the cleanEmailContent call of email k ended.
HowSettled(k) ==
    LET at == CHOOSE j \in 1..Len(settled) : settled[j].index = k
    IN  settled[at].how

\* The snippet of an email is computed from its own body and subject and
\* from the way its own exchange ended, whatever the batch holds and
\* whatever the order in which the calls settled.
SnippetFromOwnExchange ==
    batchPc = "done" =>
        \A k \in 1..Len(batch) :
            emailSnippets[k] = EmailSnippetAt(batchSite, batch[k],
                                    CleanResult(HowSettled(k), batch[k].body))

\* C18: the snippet of an email depends only on the email's body and
\* subject: two emails of a batch with the same body and the same subject
\* get the same snippet, in any position and under any interleaving of the
\* cleanEmailContent calls.
C18_SameEmailSameSnippet ==
    batchPc = "done" =>
        \A i, j \in 1..Len(batch) :
            (batch[i].body = batch[j].body /\ batch[i].subject = batch[j].subject)
                => emailSnippets[i].snippet = emailSnippets[j].snippet

\* C24: at both filter call sites the text that is sampled is the
\* boilerplate-stripped text: no word of a snippet is one that
\* removeBoilerplateText removes from the cleaned text.
C24_SampledTextIsStripped ==
    batchPc = "done" =>
        \A k \in 1..Len(batch) :
            \A n \in 1..Len(emailSnippets[k].snippet) :
                removeBoilerplateText(<<emailSnippets[k].snippet[n]>>)
                    = <<emailSnippets[k].snippet[n]>>

(***************************************************************************)
(* The extraction cascade of cleanEmailContent in the offscreen document   *)
(* (scheduler.js).  The parsed document is modelled by what each strategy  *)
(* can extract from it; a text is modelled by the strategy it comes from   *)
(* and by its length in characters.                                        *)
(***************************************************************************)
MainContentMin == 200   \* testArticle.textContent.trim().length > 200
ReadabilityMin == 100   \* article.textContent.trim().length > 100
FallbackMin == 50       \* cleanedText.length < 50

ArticleLengths == {0, 100, 101, 200, 201}

\* What new Readability(...).parse() can do: throw, return null, or return
\* an article whose trimmed text has a length.
ParseOutcomes ==
    {[kind |-> "throws", len |-> 0], [kind |-> "null", len |-> 0]}
        \cup {[kind |-> "text", len |-> n] : n \in ArticleLengths}

\* doc.querySelector(selector) found no main-content element.
NoElement == [kind |-> "none", len |-> 0]

\* The joined text of the selected candidates has no length or at least
\* the 50 characters of one candidate.
CandidateLengths == {0, 50, 120}

ParagraphLengths == {0, 30, 300}

Docs ==
    [mckinsey : BOOLEAN, main : ParseOutcomes \cup {NoElement}, article : ParseOutcomes,
     candidates : CandidateLengths, paragraphs : ParagraphLengths]

NoText == [from |-> "none", len |-> 0]

\* A regular Readability that asks for as much text as the main-content one.
ReadabilityAcceptsAboveMain(article) ==
    article.kind = "text" /\ article.len > MainContentMin

\* article && article.textContent && article.textContent.trim().length > 100
ReadabilityAccepts(article) ==
    article.kind = "text" /\ article.len > ReadabilityMin

\* testArticle && testArticle.textContent && ...trim().length > 200
MainContentAccepts(testArticle) ==
    testArticle.kind = "text" /\ testArticle.len > MainContentMin

\* if (!cleanedText || cleanedText.length < 50)
FallbackNeeded(txt) == txt.len = 0 \/ txt.len < FallbackMin

Ran(strategy, txt) == [strategy |-> strategy, left |-> txt]

CascadeInit ==
    /\ cascadePc = "readability"
    /\ doc \in Docs
    /\ readabilityWorked = FALSE
    /\ cleanedText = NoText
    /\ strategiesRun = << >>

\* Strategy 1, lines 410-454: the main-content extraction of a document
\* that mentions McKinsey, then the regular Readability; a throw in either
\* leaves the try block with nothing extracted.
RunReadability ==
    /\ cascadePc = "readability"
    /\ LET viaMain    == doc.mckinsey /\ MainContentAccepts(doc.main)
           threwEarly == doc.mckinsey /\ doc.main.kind = "throws"
           viaArticle == ~viaMain /\ ~threwEarly /\ ReadabilityAccepts(doc.article)
           txt == IF viaMain THEN [from |-> "mainContent", len |-> doc.main.len]
                  ELSE IF viaArticle THEN [from |-> "readability", len |-> doc.article.len]
                  ELSE NoText
       IN  /\ readabilityWorked' = (viaMain \/ viaArticle)
           /\ cleanedText' = txt
           /\ strategiesRun' = Append(strategiesRun, Ran("readability", txt))
    /\ cascadePc' = IF readabilityWorked' THEN "fallback" ELSE "candidates"
    /\ UNCHANGED <<doc, notCascadeVars>>

\* Strategy 2, lines 457-628: if (!readabilityWorked) the candidates are
\* scored and the selected ones joined.
RunCandidates ==
    /\ cascadePc = "candidates"
    /\ ~readabilityWorked
    /\ cleanedText' = [from |-> "candidates", len |-> doc.candidates]
    /\ strategiesRun' = Append(strategiesRun, Ran("candidates", cleanedText'))
    /\ cascadePc' = "fallback"
    /\ UNCHANGED <<doc, readabilityWorked, notCascadeVars>>

\* Strategy 3, lines 630-651: the first 10 paragraphs that pass the filter.
RunFallback ==
    /\ cascadePc = "fallback"
    /\ FallbackNeeded(cleanedText)
    /\ cleanedText' = [from |-> "fallback", len |-> doc.paragraphs]
    /\ strategiesRun' = Append(strategiesRun, Ran("fallback", cleanedText'))
    /\ cascadePc' = "done"
    /\ UNCHANGED <<doc, readabilityWorked, notCascadeVars>>

SkipFallback ==
    /\ cascadePc = "fallback"
    /\ ~FallbackNeeded(cleanedText)
    /\ cascadePc' = "done"
    /\ UNCHANGED <<doc, readabilityWorked, cleanedText, strategiesRun, notCascadeVars>>

CascadeNext ==
    \/ RunReadability
    \/ RunCandidates
    \/ RunFallback
    \/ SkipFallback

InitCascade ==
    /\ CascadeInit
    /\ SampleIdle
    /\ BoilerIdle
    /\ LinksIdle
    /\ FilterIdle
    /\ OffscreenIdle
    /\ CleanIdle
    /\ DigestIdle
    /\ SummaryIdle
    /\ BatchIdle
    /\ EncodingIdle
    /\ AnchorsIdle
    /\ SelectionIdle
    /\ ReadabilityIdle

SpecCascade == InitCascade /\ [][CascadeNext]_vars

StrategiesThatRan == {strategiesRun[k].strategy : k \in 1..Len(strategiesRun)}

MaxChars == 3

InputChars == {"a_circ", "euro", "A_circ", "broken_bar", "pound", "x", "space"}

\* The characters of the model that [^\w\s] matches.
NonWordChars ==
    {"a_circ", "euro", "A_circ", "broken_bar", "pound", "quote", "apostrophe", "tm",
     "cent", "sup2", "yen", "copyright", "degree", "half", "ellipsis", "bullet",
     "emdash", "endash", "prime"}

Rule(pattern, replacement) ==
    [pattern |-> pattern, replacement |-> replacement, atEnd |-> FALSE]

RuleAtEnd(pattern, replacement) ==
    [pattern |-> pattern, replacement |-> replacement, atEnd |-> TRUE]

Prefix == <<{"a_circ"}, {"euro"}>>

\* const encodingFixes = [...], lines 755-828, in the order of the source.
encodingFixes == <<
    Rule(Prefix \o <<{"tm"}>>, <<"apostrophe">>),
    Rule(Prefix \o <<{"small_tilde"}>>, <<"apostrophe">>),
    Rule(Prefix \o <<{"oe"}>>, <<"quote">>),
    Rule(Prefix \o <<{"u009D"}>>, <<"quote">>),
    Rule(Prefix, <<"quote">>),
    Rule(Prefix \o <<{"quote"}>>, <<"emdash">>),
    Rule(Prefix \o <<{"quote"}>>, <<"endash">>),
    Rule(Prefix \o <<{"u0093"}>>, <<"emdash">>),
    Rule(Prefix \o <<{"u0092"}>>, <<"endash">>),
    Rule(Prefix \o <<{"broken_bar"}>>, <<"ellipsis">>),
    Rule(Prefix \o <<{"cent"}>>, <<"bullet">>),
    Rule(<<{"A_circ"}, {"nbsp"}>>, <<"space">>),
    Rule(<<{"A_circ"}, {"space"}>>, <<"space">>),
    Rule(<<{"A_circ"}>>, << >>),
    Rule(Prefix \o <<{"sup2"}>>, <<"prime">>),
    Rule(<<{"A_circ"}, {"pound"}>>, <<"pound">>),
    Rule(<<{"A_circ"}, {"yen"}>>, <<"yen">>),
    Rule(<<{"A_circ"}, {"copyright"}>>, <<"copyright">>),
    Rule(<<{"A_circ"}, {"degree"}>>, <<"degree">>),
    Rule(<<{"A_circ"}, {"half"}>>, <<"half">>),
    Rule(Prefix \o <<NonWordChars>>, <<"space">>),
    Rule(Prefix \o <<{"space"}>>, <<"space">>),
    RuleAtEnd(Prefix, << >>),
    Rule(Prefix, <<"space">>) >>

\* The rules of the table for the artifacts of an ellipsis, a bullet, an em
\* and an en dash, a prime, a pound, a yen, a copyright and a degree sign,
\* and a fraction.
ListedArtifacts == {6, 7, 10, 11, 15, 16, 17, 18, 19, 20}

FixMatchesAt(chars, i, rule) ==
    /\ i + Len(rule.pattern) - 1 <= Len(chars)
    /\ \A j \in 1..Len(rule.pattern) : chars[i + j - 1] \in rule.pattern[j]
    /\ rule.atEnd => i + Len(rule.pattern) - 1 = Len(chars)

\* cleanedText.replace(pattern, replacement) with a global pattern
RECURSIVE FixFrom(_, _, _)
FixFrom(chars, i, rule) ==
    IF i > Len(chars) THEN << >>
    ELSE IF FixMatchesAt(chars, i, rule)
         THEN rule.replacement \o FixFrom(chars, i + Len(rule.pattern), rule)
         ELSE <<chars[i]>> \o FixFrom(chars, i + 1, rule)

\* encodingFixes.forEach(([pattern, replacement]) => ...)
RECURSIVE ApplyFixes(_, _, _)
ApplyFixes(chars, table, k) ==
    IF k > Len(table) THEN chars
    ELSE ApplyFixes(FixFrom(chars, 1, table[k]), table, k + 1)

\* [/\s{2,}/g, ' ']
RECURSIVE CollapseSpaces(_)
CollapseSpaces(chars) ==
    IF Len(chars) < 2 THEN chars
    ELSE IF chars[1] = "space" /\ chars[2] = "space"
         THEN CollapseSpaces(Tail(chars))
         ELSE <<chars[1]>> \o CollapseSpaces(Tail(chars))

\* cleanedText.trim()
RECURSIVE Trim(_)
Trim(chars) ==
    IF chars = << >> THEN << >>
    ELSE IF chars[1] = "space" THEN Trim(Tail(chars))
    ELSE IF chars[Len(chars)] = "space" THEN Trim(SubSeq(chars, 1, Len(chars) - 1))
    ELSE chars

FixEncoding(chars) == Trim(CollapseSpaces(ApplyFixes(chars, encodingFixes, 1)))

RECURSIVE CharsOfLength(_)
CharsOfLength(n) ==
    IF n = 0 THEN {<< >>}
    ELSE {Append(c, x) : c \in CharsOfLength(n - 1), x \in InputChars}

EncodingInit ==
    /\ ePc = "start"
    /\ rawText \in UNION {CharsOfLength(n) : n \in 0..MaxChars}
    /\ fixedText = << >>

FixText ==
    /\ ePc = "start"
    /\ fixedText' = FixEncoding(rawText)
    /\ ePc' = "done"
    /\ UNCHANGED <<rawText, notEncodingVars>>

EncodingNext ==
    \/ FixText

InitEncoding ==
    /\ EncodingInit
    /\ SampleIdle
    /\ BoilerIdle
    /\ LinksIdle
    /\ FilterIdle
    /\ OffscreenIdle
    /\ CleanIdle
    /\ DigestIdle
    /\ SummaryIdle
    /\ BatchIdle
    /\ CascadeIdle
    /\ AnchorsIdle
    /\ SelectionIdle
    /\ ReadabilityIdle

SpecEncoding == InitEncoding /\ [][EncodingNext]_vars

\* The pattern of a rule as a text, when every position allows one character.
Literal(rule) ==
    [j \in 1..Len(rule.pattern) |-> CHOOSE c \in rule.pattern[j] : TRUE]

\* C26: the replacements do not interfere: every artifact sequence listed
\* in the table is rewritten to the replacement listed for it, and is not
\* consumed by an earlier, more generic rule.
C26_ListedArtifactRewritten ==
    ePc = "done" =>
        \A k \in ListedArtifacts :
            rawText = Literal(encodingFixes[k])
                => fixedText = encodingFixes[k].replacement

(***************************************************************************)
(* The link list of cleanEmailContent in the offscreen document            *)
(* (scheduler.js 654-686).  An href that starts with http is a positive    *)
(* number, the same number for the same URL; 0 is an href that does not    *)
(* (a mailto: link, an empty href).                                        *)
(***************************************************************************)
MaxAnchors == 11

LinkCap == 10           \* .slice(0, 10)

OtherHref == 0

\* The URLs 1..n in order, the one at position r once more right behind
\* itself (r = 0: none), and one other href in front of position m (m = 0:
\* none).
AnchorList(n, r, m) ==
    LET repeated == [k \in 1..(IF r = 0 THEN n ELSE n + 1) |->
                        IF r = 0 \/ k <= r THEN k ELSE k - 1]
    IN  IF m = 0 THEN repeated
        ELSE SubSeq(repeated, 1, m - 1) \o <<OtherHref>>
                \o SubSeq(repeated, m, Len(repeated))

\* .filter(href => href && href.startsWith('http'))
HttpHrefs(hrefs) == SelectSeq(hrefs, LAMBDA h : h # OtherHref)

\* The first 10 distinct http(s) links of the document.
FirstDistinctLinks(hrefs) == Slice(Unique(HttpHrefs(hrefs)), 0, LinkCap)

\* links = [...].map(a => a.href).filter(...).slice(0, 10), and in the
\* returned record links: [...new Set(links)]
DocumentLinks(hrefs) == Unique(Slice(HttpHrefs(hrefs), 0, LinkCap))

AnchorsInit ==
    /\ aPc = "start"
    /\ \E n \in 0..MaxAnchors : \E r \in 0..n : \E m \in 0..n :
            anchors = AnchorList(n, r, m)
    /\ docLinks = << >>

CollectLinks ==
    /\ aPc = "start"
    /\ docLinks' = DocumentLinks(anchors)
    /\ aPc' = "done"
    /\ UNCHANGED <<anchors, notAnchorVars>>

AnchorsNext ==
    \/ CollectLinks

InitAnchors ==
    /\ AnchorsInit
    /\ SampleIdle
    /\ BoilerIdle
    /\ LinksIdle
    /\ FilterIdle
    /\ OffscreenIdle
    /\ CleanIdle
    /\ DigestIdle
    /\ SummaryIdle
    /\ BatchIdle
    /\ CascadeIdle
    /\ EncodingIdle
    /\ SelectionIdle
    /\ ReadabilityIdle

SpecAnchors == InitAnchors /\ [][AnchorsNext]_vars

\* C27: the returned links are the deduplicated http(s) hrefs of the
\* document cut to the first 10: no link twice, at most 10, and a document
\* with at least 10 distinct links yields its first 10 distinct links, also
\* when an earlier anchor repeats a URL.
C27_FirstTenDistinctLinks ==
    aPc = "done" =>
        /\ \A i, j \in 1..Len(docLinks) : i # j => docLinks[i] # docLinks[j]
        /\ Len(docLinks) <= 10
        /\ Cardinality(Range(HttpHrefs(anchors))) >= 10
              => docLinks = FirstDistinctLinks(anchors)

(***************************************************************************)
(* The candidate selection of strategy 2 (scheduler.js 570-627).  A text   *)
(* is a sequence of words and contains another when that one is a          *)
(* contiguous part of it.  The candidates come in the order the sort by    *)
(* score left them in; its comparator (score, or document order when two   *)
(* scores are less than 100 apart) is no consistent ordering, so every     *)
(* order is taken.                                                         *)
(***************************************************************************)
MaxCandidates == 6

\* The elements of a document that can be candidates.  Element 1 holds
\* elements 2 and 3; element 7 comes late in the document.
Candidate(order, txt, quality, wordCount) ==
    [documentOrder |-> order, text |-> txt, qualityScore |-> quality, wordCount |-> wordCount]

DocumentElements ==
    {Candidate(1, <<"a", "b">>, 150, 200), Candidate(2, <<"a">>, 150, 100),
     Candidate(3, <<"b">>, 50, 100), Candidate(4, <<"c">>, 150, 100),
     Candidate(5, <<"d">>, 50, 100), Candidate(6, <<"e">>, 50, 100),
     Candidate(60, <<"f">>, 150, 100)}

RECURSIVE CandidateListsOfLength(_)
CandidateListsOfLength(n) ==
    IF n = 0 THEN {<< >>}
    ELSE UNION {{Append(l, c) : c \in DocumentElements \ Range(l)} :
                    l \in CandidateListsOfLength(n - 1)}

\* big.includes(small)
Includes(big, small) ==
    \E i \in 0..(Len(big) - Len(small)) : SubSeq(big, i + 1, i + Len(small)) = small

\* A test that looks in one direction only.
IsDuplicateOneWay(selected, candidate) ==
    \E k \in 1..Len(selected) : Includes(selected[k].text, candidate.text)

\* selectedContent.some(selected => selected.text.includes(candidate.text)
\*     || candidate.text.includes(selected.text))
IsDuplicate(selected, candidate) ==
    \E k \in 1..Len(selected) :
        \/ Includes(selected[k].text, candidate.text)
        \/ Includes(candidate.text, selected[k].text)

TotalWords(selected) ==
    IF selected = << >> THEN 0
    ELSE LET Sum[k \in 0..Len(selected)] ==
                IF k = 0 THEN 0 ELSE Sum[k - 1] + selected[k].wordCount
         IN  Sum[Len(selected)]

\* First pass, lines 590-605: early candidates of high quality.
RECURSIVE FirstPass(_, _, _)
FirstPass(candidates, k, selected) ==
    IF k > Len(candidates) THEN selected
    ELSE LET candidate == candidates[k]
             taken ==
                IF /\ candidate.documentOrder < 50
                   /\ candidate.qualityScore > 100
                   /\ ~IsDuplicate(selected, candidate)
                   /\ TotalWords(selected) < 800
                THEN Append(selected, candidate)
                ELSE selected
         IN  IF Len(taken) >= 3 \/ TotalWords(taken) >= 600
             THEN taken
             ELSE FirstPass(candidates, k + 1, taken)

\* Second pass, lines 607-622: other candidates, when the first pass left
\* fewer than 3 with fewer than 400 words.
RECURSIVE FillUp(_, _, _)
FillUp(candidates, k, selected) ==
    IF k > Len(candidates) THEN selected
    ELSE LET candidate == candidates[k]
             taken ==
                IF ~IsDuplicate(selected, candidate) /\ TotalWords(selected) < 1000
                THEN Append(selected, candidate)
                ELSE selected
         IN  IF Len(taken) >= 5 \/ TotalWords(taken) >= 800
             THEN taken
             ELSE FillUp(candidates, k + 1, taken)

SecondPass(candidates, selected) ==
    IF Len(selected) < 3 /\ TotalWords(selected) < 400
    THEN FillUp(candidates, 1, selected)
    ELSE selected

\* selectedContent.sort((a, b) => a.documentOrder - b.documentOrder)
RECURSIVE SortByDocumentOrder(_)
SortByDocumentOrder(selected) ==
    IF selected = << >> THEN << >>
    ELSE LET first == CHOOSE k \in 1..Len(selected) :
                        \A j \in 1..Len(selected) :
                            selected[k].documentOrder <= selected[j].documentOrder
             rest  == [j \in 1..(Len(selected) - 1) |->
                        IF j < first THEN selected[j] ELSE selected[j + 1]]
         IN  <<selected[first]>> \o SortByDocumentOrder(rest)

SelectionInit ==
    /\ selPc = "start"
    /\ contentCandidates \in UNION {CandidateListsOfLength(n) : n \in 0..MaxCandidates}
    /\ selectedContent = << >>
    /\ joinedText = << >>

\* Lines 587-627: both passes, the sort, and
\* cleanedText = selectedContent.map(c => c.text).join('\n\n')
SelectCandidates ==
    /\ selPc = "start"
    /\ selectedContent' = SortByDocumentOrder(
            SecondPass(contentCandidates, FirstPass(contentCandidates, 1, << >>)))
    /\ joinedText' = [k \in 1..Len(selectedContent') |-> selectedContent'[k].text]
    /\ selPc' = "done"
    /\ UNCHANGED <<contentCandidates, notSelectionVars>>

SelectionNext ==
    \/ SelectCandidates

InitSelection ==
    /\ SelectionInit
    /\ SampleIdle
    /\ BoilerIdle
    /\ LinksIdle
    /\ FilterIdle
    /\ OffscreenIdle
    /\ CleanIdle
    /\ DigestIdle
    /\ SummaryIdle
    /\ BatchIdle
    /\ CascadeIdle
    /\ EncodingIdle
    /\ AnchorsIdle
    /\ ReadabilityIdle

SpecSelection == InitSelection /\ [][SelectionNext]_vars

\* C28: the selected candidates are pairwise non-overlapping (no text of
\* one is part of the text of another, across both passes), they are at
\* most 5, and their texts are joined in document order whatever order the
\* scores gave them.
C28_SelectionNonOverlappingOrdered ==
    selPc = "done" =>
        /\ \A i, j \in 1..Len(selectedContent) :
              i # j => ~Includes(selectedContent[i].text, selectedContent[j].text)
        /\ Len(selectedContent) <= 5
        /\ \A i, j \in 1..Len(selectedContent) :
              i < j => selectedContent[i].documentOrder < selectedContent[j].documentOrder
        /\ Len(joinedText) = Len(selectedContent)
        /\ \A k \in 1..Len(joinedText) : joinedText[k] = selectedContent[k].text

\* Six candidates against document order, the enclosing element last: the
\* first pass took two, the second filled up to five, and the texts are
\* joined in document order.
C28_Witness ==
    /\ selPc = "done"
    /\ Len(contentCandidates) = 6
    /\ contentCandidates[1].documentOrder = 4
    /\ contentCandidates[2].documentOrder = 2
    /\ contentCandidates[6].documentOrder = 1
    /\ Len(selectedContent) = 5
    /\ selectedContent[1].documentOrder = 2

(***************************************************************************)
(* Readability._findArticleContainer (part_000 915-1067).  The page is the *)
(* list of the elements under the parsed BODY in document order; element 0 *)
(* is the BODY itself.  Scores are kept in hundredths and a link density   *)
(* in percent, so that the scaling of line 1012 stays in the integers.     *)
(***************************************************************************)
MaxElements == 3

NoTopCandidate == -1

PageElement(tag, weight, commas, lengthBonus, density, unlikely) ==
    [tagName |-> tag, weight |-> weight, commas |-> commas,
     lengthBonus |-> lengthBonus, linkDensity |-> density, unlikely |-> unlikely]

\* The kinds of element of a page: paragraphs plain, rich, full of links
\* and with a footer id, a table cell, containers, and elements whose
\* class name matches unlikelyCandidates.
ElementKinds ==
    {PageElement("P", 0, 0, 0, 0, FALSE), PageElement("P", 0, 2, 1, 0, FALSE),
     PageElement("P", 0, 2, 1, 50, FALSE), PageElement("P", -25, 0, 0, 50, FALSE),
     PageElement("TD", 0, 0, 0, 0, FALSE), PageElement("DIV", 0, 0, 0, 0, FALSE),
     PageElement("DIV", 0, 0, 0, 50, FALSE), PageElement("DIV", 0, 0, 0, 0, TRUE),
     PageElement("P", 0, 0, 0, 0, TRUE)}

\* An element with its parent: 0 for the BODY, else an earlier container.
RECURSIVE PagesOfLength(_)
PagesOfLength(n) ==
    IF n = 0 THEN {<< >>}
    ELSE UNION {{Append(pg, [el |-> kind, parentNode |-> parent]) :
                    kind \in ElementKinds,
                    parent \in {0} \cup {k \in 1..Len(pg) : pg[k].el.tagName \in {"DIV", "TD"}}} :
                pg \in PagesOfLength(n - 1)}

TagName(pg, e) == IF e = 0 THEN "BODY" ELSE pg[e].el.tagName

RECURSIVE Ancestors(_, _)
Ancestors(pg, e) ==
    IF e = 0 \/ pg[e].parentNode = 0 THEN {}
    ELSE {pg[e].parentNode} \cup Ancestors(pg, pg[e].parentNode)

\* Lines 927-933: an element is removed, with everything under it, when
\* the loop meets it and its class name is an unlikely one.
Removed(pg) ==
    {e \in 1..Len(pg) : \E a \in {e} \cup Ancestors(pg, e) : pg[a].el.unlikely}

\* Lines 924-933: il is lowered by one for every removal, but the live list
\* loses the removed element's descendants too, so the loop then runs past
\* the end of the list and reads className of undefined.
RemovalThrows(pg) ==
    \E e \in Removed(pg) : pg[e].el.unlikely /\ \E c \in Removed(pg) : e \in Ancestors(pg, c)

\* Lines 935-937
RECURSIVE InitialCandidates(_, _)
InitialCandidates(pg, e) ==
    IF e > Len(pg) THEN << >>
    ELSE (IF e \notin Removed(pg) /\ pg[e].el.tagName \in {"P", "TD", "PRE"}
          THEN <<e>> ELSE << >>) \o InitialCandidates(pg, e + 1)

\* _getScore, lines 1150-1186
getScore(el) ==
    (CASE el.tagName = "DIV" -> 5
       [] el.tagName \in {"PRE", "TD", "BLOCKQUOTE"} -> 3
       [] OTHER -> 0) + el.weight

\* Lines 945-960, in hundredths
ParagraphScore(el) == 100 * (getScore(el) + 1 + el.commas + el.lengthBonus)

\* Lines 979-995: a DIV above the candidate becomes a candidate itself and
\* its score grows by the candidate's.
Boosted(pg, state, container, score) ==
    IF container # NoTopCandidate /\ TagName(pg, container) = "DIV"
    THEN [list |-> IF container \in Range(state.list) THEN state.list
                   ELSE Append(state.list, container),
          score |-> [state.score EXCEPT ![container] = @ + score]]
    ELSE state

\* Lines 970-996, over the candidates the loop started with
RECURSIVE BoostAncestors(_, _, _, _)
BoostAncestors(pg, state, k, il) ==
    IF k > il THEN state
    ELSE LET candidate   == state.list[k]
             parent      == pg[candidate].parentNode
             grandparent == IF parent = 0 THEN NoTopCandidate ELSE pg[parent].parentNode
             score       == state.score[candidate]
         IN  BoostAncestors(pg,
                 Boosted(pg, Boosted(pg, state, parent, score), grandparent, score),
                 k + 1, il)

\* The candidates and their scores before line 1002
Accumulated(pg) ==
    LET initial == InitialCandidates(pg, 1)
        scores  == [e \in 0..Len(pg) |->
                        IF e \in Range(initial) THEN ParagraphScore(pg[e].el) ELSE 0]
    IN  BoostAncestors(pg, [list |-> initial, score |-> scores], 1, Len(initial))

\* Lines 1012-1013: the scaled score replaces the accumulated one.
ScaledScores(pg, state) ==
    [e \in 0..Len(pg) |->
        IF e \in Range(state.list)
        THEN (state.score[e] * (100 - pg[e].el.linkDensity)) \div 100
        ELSE state.score[e]]

\* Lines 1015-1017 and 1029-1031: the first candidate no later one beats.
FirstBest(list, score) ==
    IF list = << >> THEN NoTopCandidate
    ELSE list[CHOOSE k \in 1..Len(list) :
                /\ \A j \in 1..Len(list) : score[list[j]] <= score[list[k]]
                /\ \A j \in 1..(k - 1) : score[list[j]] < score[list[k]]]

\* Line 1023
NeedsFallback(pg, top) ==
    top = NoTopCandidate \/ TagName(pg, top) \in {"BODY", "HTML"}

ReadabilityInit ==
    /\ rdPc = "start"
    /\ page \in UNION {PagesOfLength(n) : n \in 0..MaxElements}
    /\ scoredCandidates = << >>
    /\ contentScore = [e \in 0..Len(page) |-> 0]
    /\ topCandidate = NoTopCandidate
    /\ fallbackRan = FALSE
    /\ articleContainer = "unset"

\* Lines 924-933 throw.
FindArticleContainerThrows ==
    /\ rdPc = "start"
    /\ RemovalThrows(page)
    /\ rdPc' = "done"
    /\ articleContainer' = "threw"
    /\ UNCHANGED <<page, scoredCandidates, contentScore, topCandidate, fallbackRan, notReadabilityVars>>

\* Lines 915-1067
FindArticleContainer ==
    /\ rdPc = "start"
    /\ ~RemovalThrows(page)
    /\ LET state  == Accumulated(page)
           scaled == ScaledScores(page, state)
           top    == FirstBest(state.list, scaled)
       IN  /\ scoredCandidates' = state.list
           /\ contentScore' = scaled
           /\ fallbackRan' = NeedsFallback(page, top)
           /\ topCandidate' = IF NeedsFallback(page, top)
                              THEN FirstBest(state.list, scaled)
                              ELSE top
    /\ articleContainer' = IF topCandidate' = NoTopCandidate THEN "null" ELSE "div"
    /\ rdPc' = "done"
    /\ UNCHANGED <<page, notReadabilityVars>>

ReadabilityNext ==
    \/ FindArticleContainerThrows
    \/ FindArticleContainer

InitReadability ==
    /\ ReadabilityInit
    /\ SampleIdle
    /\ BoilerIdle
    /\ LinksIdle
    /\ FilterIdle
    /\ OffscreenIdle
    /\ CleanIdle
    /\ DigestIdle
    /\ SummaryIdle
    /\ BatchIdle
    /\ CascadeIdle
    /\ EncodingIdle
    /\ AnchorsIdle
    /\ SelectionIdle

SpecReadability == InitReadability /\ [][ReadabilityNext]_vars

\* The chosen element is a scored one no scored element beats on the scaled
\* score, and it is neither BODY nor HTML.
ContainerIsBestScaled ==
    articleContainer = "div" =>
        /\ topCandidate \in Range(scoredCandidates)
        /\ \A c \in Range(scoredCandidates) :
              ScaledScores(page, Accumulated(page))[c]
                  <= ScaledScores(page, Accumulated(page))[topCandidate]
        /\ TagName(page, topCandidate) \notin {"BODY", "HTML"}

\* When the first search leaves no candidate, the second chooses one, the
\* best by the score accumulated before the scaling.
FallbackChoosesBestUnscaled ==
    fallbackRan =>
        /\ topCandidate \in Range(scoredCandidates)
        /\ \A c \in Range(scoredCandidates) :
              Accumulated(page).score[c] <= Accumulated(page).score[topCandidate]

Owed(settlement) ==
    [handler |-> IF settlement = "rejected" THEN "catch" ELSE "then",
     success |-> settlement = "success"]

AtMostOneResponse ==
    /\ sendResponses[0] = << >>
    /\ \A r \in Runs :
        /\ Len(sendResponses[r]) <= 1
        /\ sendResponses[r] # << >> =>
              /\ runPc[r] = "done"
              /\ sendResponses[r][1] = Owed(result[r])

\* C30: every GENERATE_DIGEST message the listener received is eventually
\* answered by exactly one sendResponse, with the result of generateDigest
\* or with { success: false, error } when generateDigest rejected, provided
\* every call of an external collaborator settles; a message of another
\* type is never answered.
C30_EveryDigestMessageAnswered ==
    /\ []AtMostOneResponse
    /\ \A r \in Runs : (runPc[r] # "idle") ~> (Len(sendResponses[r]) = 1)

\* The teardown in the finally block failed, generateDigest rejected and
\* the catch handler answered; a message of another type was received too.
C30_Witness ==
    /\ otherMessages > 0
    /\ \E r \in Runs :
        /\ result[r] = "rejected"
        /\ sendResponses[r] = <<[handler |-> "catch", success |-> FALSE]>>
====
